---- MODULE Spec2Model ----
(***************************************************************************)
(* Model of the shopping-list parser of scraper/lib/nlp-parser.js          *)
(* (splitIntoBlocks -> expandLine -> parseItem, composed by                *)
(* parseShoppingList) and of the command line tool scraper/shop.js, which  *)
(* parses a list, looks every item up through a per-store cache and the    *)
(* store API, saves the cache and writes the items grouped by aisle.  A    *)
(* run of shop.js is a process of its own; runs share cache.json and may   *)
(* overlap, and a run can be overtaken wherever it waits for the API.  A   *)
(* JavaScript string is the sequence of its code units (a Latin-1          *)
(* character is the one-character string, any other the token "U+hhhh");   *)
(* JavaScript null is the value Null; an object or Map is a function on    *)
(* its keys.                                                               *)
(***************************************************************************)
EXTENDS Integers, Sequences, FiniteSets, TLC

\* ------------------------------------------------------------------------
\* Bounds of the explored inputs
\* ------------------------------------------------------------------------
MaxSegs == 2
MaxLines == 3
\* the runs of shop.js, each a process with its own memory
MaxRuns == 2

\* ------------------------------------------------------------------------
\* JavaScript strings and their built-in operations
\* ------------------------------------------------------------------------
Str(s) == [i \in 1..Len(s) |-> SubSeq(s, i, i)]

Null == <<"null">>

Truthy(v) == v # Null /\ v # <<>>

OrNull(v) == IF Truthy(v) THEN v ELSE Null

UpperLetters == Str("ABCDEFGHIJKLMNOPQRSTUVWXYZ")

LowerLetters == Str("abcdefghijklmnopqrstuvwxyz")

DigitChars == {"0", "1", "2", "3", "4", "5", "6", "7", "8", "9"}

\* A character of the Latin-1 range is the one-character string; any other
\* code unit is the token "U+hhhh" of its code point.
NBSP == " "

\* the line terminators: LF, CR, LINE SEPARATOR, PARAGRAPH SEPARATOR
LineTerminators == {"\n", "\r", "U+2028", "U+2029"}

\* what \s matches and trim() removes: TAB, VT, FF, SP, NBSP, the byte
\* order mark, the space separators and the line terminators
WhiteSpace ==
    {" ", "\t", "U+000B", "\f", NBSP, "U+FEFF", "U+1680", "U+2000", "U+2001",
     "U+2002", "U+2003", "U+2004", "U+2005", "U+2006", "U+2007", "U+2008",
     "U+2009", "U+200A", "U+202F", "U+205F", "U+3000"} \cup LineTerminators

IsSpace(c) == c \in WhiteSpace

\* what the regular expression atom . does not match
IsLineTerminator(c) == c \in LineTerminators

IsDigit(c) == c \in DigitChars

UpperSet == {UpperLetters[i] : i \in 1..26}

LowerSet == {LowerLetters[i] : i \in 1..26}

\* the cased letters of Latin-1 whose other case is one Latin-1 letter
CasedUpper == UpperLetters \o Str("ÀÁÂÃÄÅÆÇÈÉÊËÌÍÎÏÐÑÒÓÔÕÖØÙÚÛÜÝÞ")

CasedLower == LowerLetters \o Str("àáâãäåæçèéêëìíîïðñòóôõöøùúûüýþ")

LowerOf == [c \in {CasedUpper[i] : i \in 1..56} |->
               CasedLower[CHOOSE i \in 1..56 : CasedUpper[i] = c]]

UpperOf == [c \in {CasedLower[i] : i \in 1..56} |->
               CasedUpper[CHOOSE i \in 1..56 : CasedLower[i] = c]]

\* the code units 32..95, 97..126 and 160..255, which stand for themselves
Latin1Low ==
    Str(" !\"#$%&'()*+,-./0123456789:;<=>?@ABCDEFGHIJKLMNOPQRSTUVWXYZ[\\]^_")

Latin1Mid == Str("abcdefghijklmnopqrstuvwxyz{|}~")

Latin1High ==
    Str(" ¡¢£¤¥¦§¨©ª«¬­®¯°±²³´µ¶·¸¹º»¼½¾¿ÀÁÂÃÄÅÆÇÈÉÊËÌÍÎÏÐÑÒÓÔÕÖ×ØÙÚÛÜÝÞßàáâãäåæçèéêëìíîïðñòóôõö÷øùúûüýþÿ")

HexDigits == Str("0123456789ABCDEF")

HexValue(d) == (CHOOSE i \in 1..16 : HexDigits[i] = d) - 1

\* the code of the code unit c
CodeUnit(c) ==
    IF Len(c) = 6
    THEN 4096 * HexValue(SubSeq(c, 3, 3)) + 256 * HexValue(SubSeq(c, 4, 4))
         + 16 * HexValue(SubSeq(c, 5, 5)) + HexValue(SubSeq(c, 6, 6))
    ELSE CASE c = "\t" -> 9
           [] c = "\n" -> 10
           [] c = "\f" -> 12
           [] c = "\r" -> 13
           [] OTHER -> IF \E i \in 1..64 : Latin1Low[i] = c
                       THEN 31 + (CHOOSE i \in 1..64 : Latin1Low[i] = c)
                       ELSE IF \E i \in 1..30 : Latin1Mid[i] = c
                       THEN 96 + (CHOOSE i \in 1..30 : Latin1Mid[i] = c)
                       ELSE 159 + (CHOOSE i \in 1..96 : Latin1High[i] = c)

\* the code unit of code n
CharOf(n) ==
    IF n \in 32..95 THEN Latin1Low[n - 31]
    ELSE IF n \in 97..126 THEN Latin1Mid[n - 96]
    ELSE IF n \in 160..255 THEN Latin1High[n - 159]
    ELSE CASE n = 9 -> "\t"
           [] n = 10 -> "\n"
           [] n = 12 -> "\f"
           [] n = 13 -> "\r"
           [] OTHER -> "U+" \o HexDigits[(n \div 4096) + 1] \o HexDigits[((n \div 256) % 16) + 1]
                       \o HexDigits[((n \div 16) % 16) + 1] \o HexDigits[(n % 16) + 1]

\* the code points of the codes u from position p on: a high surrogate
\* and the low surrogate after it are one code point
RECURSIVE CodePointsFrom(_, _)
CodePointsFrom(u, p) ==
    IF p > Len(u) THEN <<>>
    ELSE IF p < Len(u) /\ u[p] \in 55296..56319 /\ u[p + 1] \in 56320..57343
         THEN <<65536 + (u[p] - 55296) * 1024 + (u[p + 1] - 56320)>>
              \o CodePointsFrom(u, p + 2)
         ELSE <<u[p]>> \o CodePointsFrom(u, p + 1)

CodePoints(s) == CodePointsFrom([i \in 1..Len(s) |-> CodeUnit(s[i])], 1)

\* the code units of the code point cp
UnitsOf(cp) ==
    IF cp < 65536 THEN <<CharOf(cp)>>
    ELSE <<CharOf(55296 + ((cp - 65536) \div 1024)), CharOf(56320 + ((cp - 65536) % 1024))>>

\* toLowerCase and toUpperCase map by the Unicode Character Database of the
\* JavaScript engine.  The repository names no engine; the case tables are
\* those of Unicode 17.0.  <<lo, hi, step, d>>: the code points lo,
\* lo + step, ..., hi have the lower case code point + d
LowerRanges ==
    <<<<65, 90, 1, 32>>, <<192, 214, 1, 32>>, <<216, 222, 1, 32>>, <<256, 302, 2, 1>>,
      <<306, 310, 2, 1>>, <<313, 327, 2, 1>>, <<330, 374, 2, 1>>, <<376, 376, 1, -121>>,
      <<377, 381, 2, 1>>, <<385, 385, 1, 210>>, <<386, 388, 2, 1>>, <<390, 390, 1, 206>>,
      <<391, 391, 1, 1>>, <<393, 394, 1, 205>>, <<395, 395, 1, 1>>, <<398, 398, 1, 79>>,
      <<399, 399, 1, 202>>, <<400, 400, 1, 203>>, <<401, 401, 1, 1>>, <<403, 403, 1, 205>>,
      <<404, 404, 1, 207>>, <<406, 406, 1, 211>>, <<407, 407, 1, 209>>, <<408, 408, 1, 1>>,
      <<412, 412, 1, 211>>, <<413, 413, 1, 213>>, <<415, 415, 1, 214>>, <<416, 420, 2, 1>>,
      <<422, 422, 1, 218>>, <<423, 423, 1, 1>>, <<425, 425, 1, 218>>, <<428, 428, 1, 1>>,
      <<430, 430, 1, 218>>, <<431, 431, 1, 1>>, <<433, 434, 1, 217>>, <<435, 437, 2, 1>>,
      <<439, 439, 1, 219>>, <<440, 440, 1, 1>>, <<444, 444, 1, 1>>, <<452, 452, 1, 2>>,
      <<453, 453, 1, 1>>, <<455, 455, 1, 2>>, <<456, 456, 1, 1>>, <<458, 458, 1, 2>>,
      <<459, 475, 2, 1>>, <<478, 494, 2, 1>>, <<497, 497, 1, 2>>, <<498, 500, 2, 1>>,
      <<502, 502, 1, -97>>, <<503, 503, 1, -56>>, <<504, 542, 2, 1>>, <<544, 544, 1, -130>>,
      <<546, 562, 2, 1>>, <<570, 570, 1, 10795>>, <<571, 571, 1, 1>>, <<573, 573, 1, -163>>,
      <<574, 574, 1, 10792>>, <<577, 577, 1, 1>>, <<579, 579, 1, -195>>, <<580, 580, 1, 69>>,
      <<581, 581, 1, 71>>, <<582, 590, 2, 1>>, <<880, 882, 2, 1>>, <<886, 886, 1, 1>>,
      <<895, 895, 1, 116>>, <<902, 902, 1, 38>>, <<904, 906, 1, 37>>, <<908, 908, 1, 64>>,
      <<910, 911, 1, 63>>, <<913, 929, 1, 32>>, <<931, 939, 1, 32>>, <<975, 975, 1, 8>>,
      <<984, 1006, 2, 1>>, <<1012, 1012, 1, -60>>, <<1015, 1015, 1, 1>>, <<1017, 1017, 1, -7>>,
      <<1018, 1018, 1, 1>>, <<1021, 1023, 1, -130>>, <<1024, 1039, 1, 80>>, <<1040, 1071, 1, 32>>,
      <<1120, 1152, 2, 1>>, <<1162, 1214, 2, 1>>, <<1216, 1216, 1, 15>>, <<1217, 1229, 2, 1>>,
      <<1232, 1326, 2, 1>>, <<1329, 1366, 1, 48>>, <<4256, 4293, 1, 7264>>, <<4295, 4295, 1, 7264>>,
      <<4301, 4301, 1, 7264>>, <<5024, 5103, 1, 38864>>, <<5104, 5109, 1, 8>>, <<7305, 7305, 1, 1>>,
      <<7312, 7354, 1, -3008>>, <<7357, 7359, 1, -3008>>, <<7680, 7828, 2, 1>>, <<7838, 7838, 1, -7615>>,
      <<7840, 7934, 2, 1>>, <<7944, 7951, 1, -8>>, <<7960, 7965, 1, -8>>, <<7976, 7983, 1, -8>>,
      <<7992, 7999, 1, -8>>, <<8008, 8013, 1, -8>>, <<8025, 8031, 2, -8>>, <<8040, 8047, 1, -8>>,
      <<8072, 8079, 1, -8>>, <<8088, 8095, 1, -8>>, <<8104, 8111, 1, -8>>, <<8120, 8121, 1, -8>>,
      <<8122, 8123, 1, -74>>, <<8124, 8124, 1, -9>>, <<8136, 8139, 1, -86>>, <<8140, 8140, 1, -9>>,
      <<8152, 8153, 1, -8>>, <<8154, 8155, 1, -100>>, <<8168, 8169, 1, -8>>, <<8170, 8171, 1, -112>>,
      <<8172, 8172, 1, -7>>, <<8184, 8185, 1, -128>>, <<8186, 8187, 1, -126>>, <<8188, 8188, 1, -9>>,
      <<8486, 8486, 1, -7517>>, <<8490, 8490, 1, -8383>>, <<8491, 8491, 1, -8262>>, <<8498, 8498, 1, 28>>,
      <<8544, 8559, 1, 16>>, <<8579, 8579, 1, 1>>, <<9398, 9423, 1, 26>>, <<11264, 11311, 1, 48>>,
      <<11360, 11360, 1, 1>>, <<11362, 11362, 1, -10743>>, <<11363, 11363, 1, -3814>>, <<11364, 11364, 1, -10727>>,
      <<11367, 11371, 2, 1>>, <<11373, 11373, 1, -10780>>, <<11374, 11374, 1, -10749>>, <<11375, 11375, 1, -10783>>,
      <<11376, 11376, 1, -10782>>, <<11378, 11378, 1, 1>>, <<11381, 11381, 1, 1>>, <<11390, 11391, 1, -10815>>,
      <<11392, 11490, 2, 1>>, <<11499, 11501, 2, 1>>, <<11506, 11506, 1, 1>>, <<42560, 42604, 2, 1>>,
      <<42624, 42650, 2, 1>>, <<42786, 42798, 2, 1>>, <<42802, 42862, 2, 1>>, <<42873, 42875, 2, 1>>,
      <<42877, 42877, 1, -35332>>, <<42878, 42886, 2, 1>>, <<42891, 42891, 1, 1>>, <<42893, 42893, 1, -42280>>,
      <<42896, 42898, 2, 1>>, <<42902, 42920, 2, 1>>, <<42922, 42922, 1, -42308>>, <<42923, 42923, 1, -42319>>,
      <<42924, 42924, 1, -42315>>, <<42925, 42925, 1, -42305>>, <<42926, 42926, 1, -42308>>, <<42928, 42928, 1, -42258>>,
      <<42929, 42929, 1, -42282>>, <<42930, 42930, 1, -42261>>, <<42931, 42931, 1, 928>>, <<42932, 42946, 2, 1>>,
      <<42948, 42948, 1, -48>>, <<42949, 42949, 1, -42307>>, <<42950, 42950, 1, -35384>>, <<42951, 42953, 2, 1>>,
      <<42955, 42955, 1, -42343>>, <<42956, 42970, 2, 1>>, <<42972, 42972, 1, -42561>>, <<42997, 42997, 1, 1>>,
      <<65313, 65338, 1, 32>>, <<66560, 66599, 1, 40>>, <<66736, 66771, 1, 40>>, <<66928, 66938, 1, 39>>,
      <<66940, 66954, 1, 39>>, <<66956, 66962, 1, 39>>, <<66964, 66965, 1, 39>>, <<68736, 68786, 1, 64>>,
      <<68944, 68965, 1, 32>>, <<71840, 71871, 1, 32>>, <<93760, 93791, 1, 32>>, <<93856, 93880, 1, 27>>,
      <<125184, 125217, 1, 34>>>>

\* the code points whose lower case is several code points
LowerSpecial ==
    <<<<304, <<105, 775>>>>>>

\* <<lo, hi, step, d>>: the code points lo, lo + step, ..., hi have the
\* upper case code point + d
UpperRanges ==
    <<<<97, 122, 1, -32>>, <<181, 181, 1, 743>>, <<224, 246, 1, -32>>, <<248, 254, 1, -32>>,
      <<255, 255, 1, 121>>, <<257, 303, 2, -1>>, <<305, 305, 1, -232>>, <<307, 311, 2, -1>>,
      <<314, 328, 2, -1>>, <<331, 375, 2, -1>>, <<378, 382, 2, -1>>, <<383, 383, 1, -300>>,
      <<384, 384, 1, 195>>, <<387, 389, 2, -1>>, <<392, 392, 1, -1>>, <<396, 396, 1, -1>>,
      <<402, 402, 1, -1>>, <<405, 405, 1, 97>>, <<409, 409, 1, -1>>, <<410, 410, 1, 163>>,
      <<411, 411, 1, 42561>>, <<414, 414, 1, 130>>, <<417, 421, 2, -1>>, <<424, 424, 1, -1>>,
      <<429, 429, 1, -1>>, <<432, 432, 1, -1>>, <<436, 438, 2, -1>>, <<441, 441, 1, -1>>,
      <<445, 445, 1, -1>>, <<447, 447, 1, 56>>, <<453, 453, 1, -1>>, <<454, 454, 1, -2>>,
      <<456, 456, 1, -1>>, <<457, 457, 1, -2>>, <<459, 459, 1, -1>>, <<460, 460, 1, -2>>,
      <<462, 476, 2, -1>>, <<477, 477, 1, -79>>, <<479, 495, 2, -1>>, <<498, 498, 1, -1>>,
      <<499, 499, 1, -2>>, <<501, 501, 1, -1>>, <<505, 543, 2, -1>>, <<547, 563, 2, -1>>,
      <<572, 572, 1, -1>>, <<575, 576, 1, 10815>>, <<578, 578, 1, -1>>, <<583, 591, 2, -1>>,
      <<592, 592, 1, 10783>>, <<593, 593, 1, 10780>>, <<594, 594, 1, 10782>>, <<595, 595, 1, -210>>,
      <<596, 596, 1, -206>>, <<598, 599, 1, -205>>, <<601, 601, 1, -202>>, <<603, 603, 1, -203>>,
      <<604, 604, 1, 42319>>, <<608, 608, 1, -205>>, <<609, 609, 1, 42315>>, <<611, 611, 1, -207>>,
      <<612, 612, 1, 42343>>, <<613, 613, 1, 42280>>, <<614, 614, 1, 42308>>, <<616, 616, 1, -209>>,
      <<617, 617, 1, -211>>, <<618, 618, 1, 42308>>, <<619, 619, 1, 10743>>, <<620, 620, 1, 42305>>,
      <<623, 623, 1, -211>>, <<625, 625, 1, 10749>>, <<626, 626, 1, -213>>, <<629, 629, 1, -214>>,
      <<637, 637, 1, 10727>>, <<640, 640, 1, -218>>, <<642, 642, 1, 42307>>, <<643, 643, 1, -218>>,
      <<647, 647, 1, 42282>>, <<648, 648, 1, -218>>, <<649, 649, 1, -69>>, <<650, 651, 1, -217>>,
      <<652, 652, 1, -71>>, <<658, 658, 1, -219>>, <<669, 669, 1, 42261>>, <<670, 670, 1, 42258>>,
      <<837, 837, 1, 84>>, <<881, 883, 2, -1>>, <<887, 887, 1, -1>>, <<891, 893, 1, 130>>,
      <<940, 940, 1, -38>>, <<941, 943, 1, -37>>, <<945, 961, 1, -32>>, <<962, 962, 1, -31>>,
      <<963, 971, 1, -32>>, <<972, 972, 1, -64>>, <<973, 974, 1, -63>>, <<976, 976, 1, -62>>,
      <<977, 977, 1, -57>>, <<981, 981, 1, -47>>, <<982, 982, 1, -54>>, <<983, 983, 1, -8>>,
      <<985, 1007, 2, -1>>, <<1008, 1008, 1, -86>>, <<1009, 1009, 1, -80>>, <<1010, 1010, 1, 7>>,
      <<1011, 1011, 1, -116>>, <<1013, 1013, 1, -96>>, <<1016, 1016, 1, -1>>, <<1019, 1019, 1, -1>>,
      <<1072, 1103, 1, -32>>, <<1104, 1119, 1, -80>>, <<1121, 1153, 2, -1>>, <<1163, 1215, 2, -1>>,
      <<1218, 1230, 2, -1>>, <<1231, 1231, 1, -15>>, <<1233, 1327, 2, -1>>, <<1377, 1414, 1, -48>>,
      <<4304, 4346, 1, 3008>>, <<4349, 4351, 1, 3008>>, <<5112, 5117, 1, -8>>, <<7296, 7296, 1, -6254>>,
      <<7297, 7297, 1, -6253>>, <<7298, 7298, 1, -6244>>, <<7299, 7300, 1, -6242>>, <<7301, 7301, 1, -6243>>,
      <<7302, 7302, 1, -6236>>, <<7303, 7303, 1, -6181>>, <<7304, 7304, 1, 35266>>, <<7306, 7306, 1, -1>>,
      <<7545, 7545, 1, 35332>>, <<7549, 7549, 1, 3814>>, <<7566, 7566, 1, 35384>>, <<7681, 7829, 2, -1>>,
      <<7835, 7835, 1, -59>>, <<7841, 7935, 2, -1>>, <<7936, 7943, 1, 8>>, <<7952, 7957, 1, 8>>,
      <<7968, 7975, 1, 8>>, <<7984, 7991, 1, 8>>, <<8000, 8005, 1, 8>>, <<8017, 8023, 2, 8>>,
      <<8032, 8039, 1, 8>>, <<8048, 8049, 1, 74>>, <<8050, 8053, 1, 86>>, <<8054, 8055, 1, 100>>,
      <<8056, 8057, 1, 128>>, <<8058, 8059, 1, 112>>, <<8060, 8061, 1, 126>>, <<8112, 8113, 1, 8>>,
      <<8126, 8126, 1, -7205>>, <<8144, 8145, 1, 8>>, <<8160, 8161, 1, 8>>, <<8165, 8165, 1, 7>>,
      <<8526, 8526, 1, -28>>, <<8560, 8575, 1, -16>>, <<8580, 8580, 1, -1>>, <<9424, 9449, 1, -26>>,
      <<11312, 11359, 1, -48>>, <<11361, 11361, 1, -1>>, <<11365, 11365, 1, -10795>>, <<11366, 11366, 1, -10792>>,
      <<11368, 11372, 2, -1>>, <<11379, 11379, 1, -1>>, <<11382, 11382, 1, -1>>, <<11393, 11491, 2, -1>>,
      <<11500, 11502, 2, -1>>, <<11507, 11507, 1, -1>>, <<11520, 11557, 1, -7264>>, <<11559, 11559, 1, -7264>>,
      <<11565, 11565, 1, -7264>>, <<42561, 42605, 2, -1>>, <<42625, 42651, 2, -1>>, <<42787, 42799, 2, -1>>,
      <<42803, 42863, 2, -1>>, <<42874, 42876, 2, -1>>, <<42879, 42887, 2, -1>>, <<42892, 42892, 1, -1>>,
      <<42897, 42899, 2, -1>>, <<42900, 42900, 1, 48>>, <<42903, 42921, 2, -1>>, <<42933, 42947, 2, -1>>,
      <<42952, 42954, 2, -1>>, <<42957, 42971, 2, -1>>, <<42998, 42998, 1, -1>>, <<43859, 43859, 1, -928>>,
      <<43888, 43967, 1, -38864>>, <<65345, 65370, 1, -32>>, <<66600, 66639, 1, -40>>, <<66776, 66811, 1, -40>>,
      <<66967, 66977, 1, -39>>, <<66979, 66993, 1, -39>>, <<66995, 67001, 1, -39>>, <<67003, 67004, 1, -39>>,
      <<68800, 68850, 1, -64>>, <<68976, 68997, 1, -32>>, <<71872, 71903, 1, -32>>, <<93792, 93823, 1, -32>>,
      <<93883, 93907, 1, -27>>, <<125218, 125251, 1, -34>>>>

\* the code points whose upper case is several code points
UpperSpecial ==
    <<<<223, <<83, 83>>>>, <<329, <<700, 78>>>>, <<496, <<74, 780>>>>, <<912, <<921, 776, 769>>>>,
      <<944, <<933, 776, 769>>>>, <<1415, <<1333, 1362>>>>, <<7830, <<72, 817>>>>, <<7831, <<84, 776>>>>,
      <<7832, <<87, 778>>>>, <<7833, <<89, 778>>>>, <<7834, <<65, 702>>>>, <<8016, <<933, 787>>>>,
      <<8018, <<933, 787, 768>>>>, <<8020, <<933, 787, 769>>>>, <<8022, <<933, 787, 834>>>>, <<8064, <<7944, 921>>>>,
      <<8065, <<7945, 921>>>>, <<8066, <<7946, 921>>>>, <<8067, <<7947, 921>>>>, <<8068, <<7948, 921>>>>,
      <<8069, <<7949, 921>>>>, <<8070, <<7950, 921>>>>, <<8071, <<7951, 921>>>>, <<8072, <<7944, 921>>>>,
      <<8073, <<7945, 921>>>>, <<8074, <<7946, 921>>>>, <<8075, <<7947, 921>>>>, <<8076, <<7948, 921>>>>,
      <<8077, <<7949, 921>>>>, <<8078, <<7950, 921>>>>, <<8079, <<7951, 921>>>>, <<8080, <<7976, 921>>>>,
      <<8081, <<7977, 921>>>>, <<8082, <<7978, 921>>>>, <<8083, <<7979, 921>>>>, <<8084, <<7980, 921>>>>,
      <<8085, <<7981, 921>>>>, <<8086, <<7982, 921>>>>, <<8087, <<7983, 921>>>>, <<8088, <<7976, 921>>>>,
      <<8089, <<7977, 921>>>>, <<8090, <<7978, 921>>>>, <<8091, <<7979, 921>>>>, <<8092, <<7980, 921>>>>,
      <<8093, <<7981, 921>>>>, <<8094, <<7982, 921>>>>, <<8095, <<7983, 921>>>>, <<8096, <<8040, 921>>>>,
      <<8097, <<8041, 921>>>>, <<8098, <<8042, 921>>>>, <<8099, <<8043, 921>>>>, <<8100, <<8044, 921>>>>,
      <<8101, <<8045, 921>>>>, <<8102, <<8046, 921>>>>, <<8103, <<8047, 921>>>>, <<8104, <<8040, 921>>>>,
      <<8105, <<8041, 921>>>>, <<8106, <<8042, 921>>>>, <<8107, <<8043, 921>>>>, <<8108, <<8044, 921>>>>,
      <<8109, <<8045, 921>>>>, <<8110, <<8046, 921>>>>, <<8111, <<8047, 921>>>>, <<8114, <<8122, 921>>>>,
      <<8115, <<913, 921>>>>, <<8116, <<902, 921>>>>, <<8118, <<913, 834>>>>, <<8119, <<913, 834, 921>>>>,
      <<8124, <<913, 921>>>>, <<8130, <<8138, 921>>>>, <<8131, <<919, 921>>>>, <<8132, <<905, 921>>>>,
      <<8134, <<919, 834>>>>, <<8135, <<919, 834, 921>>>>, <<8140, <<919, 921>>>>, <<8146, <<921, 776, 768>>>>,
      <<8147, <<921, 776, 769>>>>, <<8150, <<921, 834>>>>, <<8151, <<921, 776, 834>>>>, <<8162, <<933, 776, 768>>>>,
      <<8163, <<933, 776, 769>>>>, <<8164, <<929, 787>>>>, <<8166, <<933, 834>>>>, <<8167, <<933, 776, 834>>>>,
      <<8178, <<8186, 921>>>>, <<8179, <<937, 921>>>>, <<8180, <<911, 921>>>>, <<8182, <<937, 834>>>>,
      <<8183, <<937, 834, 921>>>>, <<8188, <<937, 921>>>>, <<64256, <<70, 70>>>>, <<64257, <<70, 73>>>>,
      <<64258, <<70, 76>>>>, <<64259, <<70, 70, 73>>>>, <<64260, <<70, 70, 76>>>>, <<64261, <<83, 84>>>>,
      <<64262, <<83, 84>>>>, <<64275, <<1348, 1350>>>>, <<64276, <<1348, 1333>>>>, <<64277, <<1348, 1339>>>>,
      <<64278, <<1358, 1350>>>>, <<64279, <<1348, 1341>>>>>>

\* <<lo, hi>>: the code points with the property Cased
CasedRanges ==
    <<<<65, 90>>, <<97, 122>>, <<170, 170>>, <<181, 181>>, <<186, 186>>, <<192, 214>>,
      <<216, 246>>, <<248, 442>>, <<444, 447>>, <<452, 659>>, <<662, 696>>, <<704, 705>>,
      <<736, 740>>, <<837, 837>>, <<880, 883>>, <<886, 887>>, <<890, 893>>, <<895, 895>>,
      <<902, 902>>, <<904, 906>>, <<908, 908>>, <<910, 929>>, <<931, 1013>>, <<1015, 1153>>,
      <<1162, 1327>>, <<1329, 1366>>, <<1376, 1416>>, <<4256, 4293>>, <<4295, 4295>>, <<4301, 4301>>,
      <<4304, 4346>>, <<4348, 4351>>, <<5024, 5109>>, <<5112, 5117>>, <<7296, 7306>>, <<7312, 7354>>,
      <<7357, 7359>>, <<7424, 7615>>, <<7680, 7957>>, <<7960, 7965>>, <<7968, 8005>>, <<8008, 8013>>,
      <<8016, 8023>>, <<8025, 8025>>, <<8027, 8027>>, <<8029, 8029>>, <<8031, 8061>>, <<8064, 8116>>,
      <<8118, 8124>>, <<8126, 8126>>, <<8130, 8132>>, <<8134, 8140>>, <<8144, 8147>>, <<8150, 8155>>,
      <<8160, 8172>>, <<8178, 8180>>, <<8182, 8188>>, <<8305, 8305>>, <<8319, 8319>>, <<8336, 8348>>,
      <<8450, 8450>>, <<8455, 8455>>, <<8458, 8467>>, <<8469, 8469>>, <<8473, 8477>>, <<8484, 8484>>,
      <<8486, 8486>>, <<8488, 8488>>, <<8490, 8493>>, <<8495, 8500>>, <<8505, 8505>>, <<8508, 8511>>,
      <<8517, 8521>>, <<8526, 8526>>, <<8544, 8575>>, <<8579, 8580>>, <<9398, 9449>>, <<11264, 11492>>,
      <<11499, 11502>>, <<11506, 11507>>, <<11520, 11557>>, <<11559, 11559>>, <<11565, 11565>>, <<42560, 42605>>,
      <<42624, 42653>>, <<42786, 42887>>, <<42891, 42894>>, <<42896, 42972>>, <<42993, 42998>>, <<43000, 43002>>,
      <<43824, 43866>>, <<43868, 43881>>, <<43888, 43967>>, <<64256, 64262>>, <<64275, 64279>>, <<65313, 65338>>,
      <<65345, 65370>>, <<66560, 66639>>, <<66736, 66771>>, <<66776, 66811>>, <<66928, 66938>>, <<66940, 66954>>,
      <<66956, 66962>>, <<66964, 66965>>, <<66967, 66977>>, <<66979, 66993>>, <<66995, 67001>>, <<67003, 67004>>,
      <<67456, 67456>>, <<67459, 67461>>, <<67463, 67504>>, <<67506, 67514>>, <<68736, 68786>>, <<68800, 68850>>,
      <<68944, 68965>>, <<68976, 68997>>, <<71840, 71903>>, <<93760, 93823>>, <<93856, 93880>>, <<93883, 93907>>,
      <<119808, 119892>>, <<119894, 119964>>, <<119966, 119967>>, <<119970, 119970>>, <<119973, 119974>>, <<119977, 119980>>,
      <<119982, 119993>>, <<119995, 119995>>, <<119997, 120003>>, <<120005, 120069>>, <<120071, 120074>>, <<120077, 120084>>,
      <<120086, 120092>>, <<120094, 120121>>, <<120123, 120126>>, <<120128, 120132>>, <<120134, 120134>>, <<120138, 120144>>,
      <<120146, 120485>>, <<120488, 120512>>, <<120514, 120538>>, <<120540, 120570>>, <<120572, 120596>>, <<120598, 120628>>,
      <<120630, 120654>>, <<120656, 120686>>, <<120688, 120712>>, <<120714, 120744>>, <<120746, 120770>>, <<120772, 120779>>,
      <<122624, 122633>>, <<122635, 122654>>, <<122661, 122666>>, <<122928, 122989>>, <<125184, 125251>>, <<127280, 127305>>,
      <<127312, 127337>>, <<127344, 127369>>>>

\* <<lo, hi>>: the code points with the property Case_Ignorable
CaseIgnorableRanges ==
    <<<<39, 39>>, <<46, 46>>, <<58, 58>>, <<94, 94>>, <<96, 96>>, <<168, 168>>,
      <<173, 173>>, <<175, 175>>, <<180, 180>>, <<183, 184>>, <<688, 879>>, <<884, 885>>,
      <<890, 890>>, <<900, 901>>, <<903, 903>>, <<1155, 1161>>, <<1369, 1369>>, <<1375, 1375>>,
      <<1425, 1469>>, <<1471, 1471>>, <<1473, 1474>>, <<1476, 1477>>, <<1479, 1479>>, <<1524, 1524>>,
      <<1536, 1541>>, <<1552, 1562>>, <<1564, 1564>>, <<1600, 1600>>, <<1611, 1631>>, <<1648, 1648>>,
      <<1750, 1757>>, <<1759, 1768>>, <<1770, 1773>>, <<1807, 1807>>, <<1809, 1809>>, <<1840, 1866>>,
      <<1958, 1968>>, <<2027, 2037>>, <<2042, 2042>>, <<2045, 2045>>, <<2070, 2093>>, <<2137, 2139>>,
      <<2184, 2184>>, <<2192, 2193>>, <<2199, 2207>>, <<2249, 2306>>, <<2362, 2362>>, <<2364, 2364>>,
      <<2369, 2376>>, <<2381, 2381>>, <<2385, 2391>>, <<2402, 2403>>, <<2417, 2417>>, <<2433, 2433>>,
      <<2492, 2492>>, <<2497, 2500>>, <<2509, 2509>>, <<2530, 2531>>, <<2558, 2558>>, <<2561, 2562>>,
      <<2620, 2620>>, <<2625, 2626>>, <<2631, 2632>>, <<2635, 2637>>, <<2641, 2641>>, <<2672, 2673>>,
      <<2677, 2677>>, <<2689, 2690>>, <<2748, 2748>>, <<2753, 2757>>, <<2759, 2760>>, <<2765, 2765>>,
      <<2786, 2787>>, <<2810, 2815>>, <<2817, 2817>>, <<2876, 2876>>, <<2879, 2879>>, <<2881, 2884>>,
      <<2893, 2893>>, <<2901, 2902>>, <<2914, 2915>>, <<2946, 2946>>, <<3008, 3008>>, <<3021, 3021>>,
      <<3072, 3072>>, <<3076, 3076>>, <<3132, 3132>>, <<3134, 3136>>, <<3142, 3144>>, <<3146, 3149>>,
      <<3157, 3158>>, <<3170, 3171>>, <<3201, 3201>>, <<3260, 3260>>, <<3263, 3263>>, <<3270, 3270>>,
      <<3276, 3277>>, <<3298, 3299>>, <<3328, 3329>>, <<3387, 3388>>, <<3393, 3396>>, <<3405, 3405>>,
      <<3426, 3427>>, <<3457, 3457>>, <<3530, 3530>>, <<3538, 3540>>, <<3542, 3542>>, <<3633, 3633>>,
      <<3636, 3642>>, <<3654, 3662>>, <<3761, 3761>>, <<3764, 3772>>, <<3782, 3782>>, <<3784, 3790>>,
      <<3864, 3865>>, <<3893, 3893>>, <<3895, 3895>>, <<3897, 3897>>, <<3953, 3966>>, <<3968, 3972>>,
      <<3974, 3975>>, <<3981, 3991>>, <<3993, 4028>>, <<4038, 4038>>, <<4141, 4144>>, <<4146, 4151>>,
      <<4153, 4154>>, <<4157, 4158>>, <<4184, 4185>>, <<4190, 4192>>, <<4209, 4212>>, <<4226, 4226>>,
      <<4229, 4230>>, <<4237, 4237>>, <<4253, 4253>>, <<4348, 4348>>, <<4957, 4959>>, <<5906, 5908>>,
      <<5938, 5939>>, <<5970, 5971>>, <<6002, 6003>>, <<6068, 6069>>, <<6071, 6077>>, <<6086, 6086>>,
      <<6089, 6099>>, <<6103, 6103>>, <<6109, 6109>>, <<6155, 6159>>, <<6211, 6211>>, <<6277, 6278>>,
      <<6313, 6313>>, <<6432, 6434>>, <<6439, 6440>>, <<6450, 6450>>, <<6457, 6459>>, <<6679, 6680>>,
      <<6683, 6683>>, <<6742, 6742>>, <<6744, 6750>>, <<6752, 6752>>, <<6754, 6754>>, <<6757, 6764>>,
      <<6771, 6780>>, <<6783, 6783>>, <<6823, 6823>>, <<6832, 6877>>, <<6880, 6891>>, <<6912, 6915>>,
      <<6964, 6964>>, <<6966, 6970>>, <<6972, 6972>>, <<6978, 6978>>, <<7019, 7027>>, <<7040, 7041>>,
      <<7074, 7077>>, <<7080, 7081>>, <<7083, 7085>>, <<7142, 7142>>, <<7144, 7145>>, <<7149, 7149>>,
      <<7151, 7153>>, <<7212, 7219>>, <<7222, 7223>>, <<7288, 7293>>, <<7376, 7378>>, <<7380, 7392>>,
      <<7394, 7400>>, <<7405, 7405>>, <<7412, 7412>>, <<7416, 7417>>, <<7468, 7530>>, <<7544, 7544>>,
      <<7579, 7679>>, <<8125, 8125>>, <<8127, 8129>>, <<8141, 8143>>, <<8157, 8159>>, <<8173, 8175>>,
      <<8189, 8190>>, <<8203, 8207>>, <<8216, 8217>>, <<8228, 8228>>, <<8231, 8231>>, <<8234, 8238>>,
      <<8288, 8292>>, <<8294, 8303>>, <<8305, 8305>>, <<8319, 8319>>, <<8336, 8348>>, <<8400, 8432>>,
      <<11388, 11389>>, <<11503, 11505>>, <<11631, 11631>>, <<11647, 11647>>, <<11744, 11775>>, <<11823, 11823>>,
      <<12293, 12293>>, <<12330, 12333>>, <<12337, 12341>>, <<12347, 12347>>, <<12441, 12446>>, <<12540, 12542>>,
      <<40981, 40981>>, <<42232, 42237>>, <<42508, 42508>>, <<42607, 42610>>, <<42612, 42621>>, <<42623, 42623>>,
      <<42652, 42655>>, <<42736, 42737>>, <<42752, 42785>>, <<42864, 42864>>, <<42888, 42890>>, <<42993, 42996>>,
      <<43000, 43001>>, <<43010, 43010>>, <<43014, 43014>>, <<43019, 43019>>, <<43045, 43046>>, <<43052, 43052>>,
      <<43204, 43205>>, <<43232, 43249>>, <<43263, 43263>>, <<43302, 43309>>, <<43335, 43345>>, <<43392, 43394>>,
      <<43443, 43443>>, <<43446, 43449>>, <<43452, 43453>>, <<43471, 43471>>, <<43493, 43494>>, <<43561, 43566>>,
      <<43569, 43570>>, <<43573, 43574>>, <<43587, 43587>>, <<43596, 43596>>, <<43632, 43632>>, <<43644, 43644>>,
      <<43696, 43696>>, <<43698, 43700>>, <<43703, 43704>>, <<43710, 43711>>, <<43713, 43713>>, <<43741, 43741>>,
      <<43756, 43757>>, <<43763, 43764>>, <<43766, 43766>>, <<43867, 43871>>, <<43881, 43883>>, <<44005, 44005>>,
      <<44008, 44008>>, <<44013, 44013>>, <<64286, 64286>>, <<64434, 64450>>, <<65024, 65039>>, <<65043, 65043>>,
      <<65056, 65071>>, <<65106, 65106>>, <<65109, 65109>>, <<65279, 65279>>, <<65287, 65287>>, <<65294, 65294>>,
      <<65306, 65306>>, <<65342, 65342>>, <<65344, 65344>>, <<65392, 65392>>, <<65438, 65439>>, <<65507, 65507>>,
      <<65529, 65531>>, <<66045, 66045>>, <<66272, 66272>>, <<66422, 66426>>, <<67456, 67461>>, <<67463, 67504>>,
      <<67506, 67514>>, <<68097, 68099>>, <<68101, 68102>>, <<68108, 68111>>, <<68152, 68154>>, <<68159, 68159>>,
      <<68325, 68326>>, <<68900, 68903>>, <<68942, 68942>>, <<68969, 68973>>, <<68975, 68975>>, <<69291, 69292>>,
      <<69317, 69317>>, <<69370, 69375>>, <<69446, 69456>>, <<69506, 69509>>, <<69633, 69633>>, <<69688, 69702>>,
      <<69744, 69744>>, <<69747, 69748>>, <<69759, 69761>>, <<69811, 69814>>, <<69817, 69818>>, <<69821, 69821>>,
      <<69826, 69826>>, <<69837, 69837>>, <<69888, 69890>>, <<69927, 69931>>, <<69933, 69940>>, <<70003, 70003>>,
      <<70016, 70017>>, <<70070, 70078>>, <<70089, 70092>>, <<70095, 70095>>, <<70191, 70193>>, <<70196, 70196>>,
      <<70198, 70199>>, <<70206, 70206>>, <<70209, 70209>>, <<70367, 70367>>, <<70371, 70378>>, <<70400, 70401>>,
      <<70459, 70460>>, <<70464, 70464>>, <<70502, 70508>>, <<70512, 70516>>, <<70587, 70592>>, <<70606, 70606>>,
      <<70608, 70608>>, <<70610, 70610>>, <<70625, 70626>>, <<70712, 70719>>, <<70722, 70724>>, <<70726, 70726>>,
      <<70750, 70750>>, <<70835, 70840>>, <<70842, 70842>>, <<70847, 70848>>, <<70850, 70851>>, <<71090, 71093>>,
      <<71100, 71101>>, <<71103, 71104>>, <<71132, 71133>>, <<71219, 71226>>, <<71229, 71229>>, <<71231, 71232>>,
      <<71339, 71339>>, <<71341, 71341>>, <<71344, 71349>>, <<71351, 71351>>, <<71453, 71453>>, <<71455, 71455>>,
      <<71458, 71461>>, <<71463, 71467>>, <<71727, 71735>>, <<71737, 71738>>, <<71995, 71996>>, <<71998, 71998>>,
      <<72003, 72003>>, <<72148, 72151>>, <<72154, 72155>>, <<72160, 72160>>, <<72193, 72202>>, <<72243, 72248>>,
      <<72251, 72254>>, <<72263, 72263>>, <<72273, 72278>>, <<72281, 72283>>, <<72330, 72342>>, <<72344, 72345>>,
      <<72544, 72544>>, <<72546, 72548>>, <<72550, 72550>>, <<72752, 72758>>, <<72760, 72765>>, <<72767, 72767>>,
      <<72850, 72871>>, <<72874, 72880>>, <<72882, 72883>>, <<72885, 72886>>, <<73009, 73014>>, <<73018, 73018>>,
      <<73020, 73021>>, <<73023, 73029>>, <<73031, 73031>>, <<73104, 73105>>, <<73109, 73109>>, <<73111, 73111>>,
      <<73177, 73177>>, <<73459, 73460>>, <<73472, 73473>>, <<73526, 73530>>, <<73536, 73536>>, <<73538, 73538>>,
      <<73562, 73562>>, <<78896, 78912>>, <<78919, 78933>>, <<90398, 90409>>, <<90413, 90415>>, <<92912, 92916>>,
      <<92976, 92982>>, <<92992, 92995>>, <<93504, 93506>>, <<93547, 93548>>, <<94031, 94031>>, <<94095, 94111>>,
      <<94176, 94177>>, <<94179, 94180>>, <<94194, 94195>>, <<110576, 110579>>, <<110581, 110587>>, <<110589, 110590>>,
      <<113821, 113822>>, <<113824, 113827>>, <<118528, 118573>>, <<118576, 118598>>, <<119143, 119145>>, <<119155, 119170>>,
      <<119173, 119179>>, <<119210, 119213>>, <<119362, 119364>>, <<121344, 121398>>, <<121403, 121452>>, <<121461, 121461>>,
      <<121476, 121476>>, <<121499, 121503>>, <<121505, 121519>>, <<122880, 122886>>, <<122888, 122904>>, <<122907, 122913>>,
      <<122915, 122916>>, <<122918, 122922>>, <<122928, 122989>>, <<123023, 123023>>, <<123184, 123197>>, <<123566, 123566>>,
      <<123628, 123631>>, <<124139, 124143>>, <<124398, 124399>>, <<124643, 124643>>, <<124646, 124646>>, <<124654, 124655>>,
      <<124661, 124661>>, <<124671, 124671>>, <<125136, 125142>>, <<125252, 125259>>, <<127995, 127999>>, <<917505, 917505>>,
      <<917536, 917631>>, <<917760, 917999>>>>

\* the code point n mapped by the table ranges
Mapped(n, ranges) ==
    LET hit == {k \in 1..Len(ranges) :
                   /\ ranges[k][1] <= n
                   /\ n <= ranges[k][2]
                   /\ (n - ranges[k][1]) % ranges[k][3] = 0}
    IN  IF hit = {} THEN n ELSE n + ranges[CHOOSE k \in hit : TRUE][4]

\* the code points the table gives for n, <<>> when it has none
Special(n, table) ==
    LET hit == {k \in 1..Len(table) : table[k][1] = n}
    IN  IF hit = {} THEN <<>> ELSE table[CHOOSE k \in hit : TRUE][2]

InRanges(n, ranges) ==
    \E k \in 1..Len(ranges) : ranges[k][1] <= n /\ n <= ranges[k][2]

\* the capital sigma at position i of cps is a final sigma: a cased letter
\* stands before it and none after it, case-ignorable code points skipped
FinalSigma(cps, i) ==
    LET before == {j \in 1..(i - 1) : ~InRanges(cps[j], CaseIgnorableRanges)}
        after == {j \in (i + 1)..Len(cps) : ~InRanges(cps[j], CaseIgnorableRanges)}
    IN  /\ before # {}
        /\ InRanges(cps[CHOOSE j \in before : \A m \in before : m <= j], CasedRanges)
        /\ \/ after = {}
           \/ ~InRanges(cps[CHOOSE j \in after : \A m \in after : j <= m], CasedRanges)

\* the lower case of the code point at position i of cps
LowerAt(cps, i) ==
    IF cps[i] = 931 THEN (IF FinalSigma(cps, i) THEN <<962>> ELSE <<963>>)
    ELSE IF Special(cps[i], LowerSpecial) # <<>> THEN Special(cps[i], LowerSpecial)
    ELSE <<Mapped(cps[i], LowerRanges)>>

\* the upper case of the code point n
UpperAt(n) ==
    IF Special(n, UpperSpecial) # <<>> THEN Special(n, UpperSpecial)
    ELSE <<Mapped(n, UpperRanges)>>

\* the strings of ss one after the other
RECURSIVE Flatten(_)
Flatten(ss) == IF ss = <<>> THEN <<>> ELSE Head(ss) \o Flatten(Tail(ss))

\* the code units of the code points cps
UnitsOfAll(cps) == Flatten([i \in 1..Len(cps) |-> UnitsOf(cps[i])])

LowerCodePoints(cps) == Flatten([i \in 1..Len(cps) |-> LowerAt(cps, i)])

\* the lower case of the code unit c does not depend on its neighbours and
\* is one code unit: c is no half of a surrogate pair, no capital sigma
\* and no capital I with dot
LowerByUnit(c) ==
    \/ Len(c) = 1
    \/ /\ c \notin {"U+03A3", "U+0130"}
       /\ CodeUnit(c) \notin 55296..57343

\* the lower case of such a code unit: within Latin-1 the table LowerOf
LowerUnit(c) ==
    IF Len(c) = 1 THEN (IF c \in DOMAIN LowerOf THEN LowerOf[c] ELSE c)
    ELSE CharOf(Mapped(CodeUnit(c), LowerRanges))

\* s.toLowerCase(): code unit by code unit where that is the same, else by
\* code points
toLowerCase(s) ==
    IF \A i \in 1..Len(s) : LowerByUnit(s[i])
    THEN [i \in 1..Len(s) |-> LowerUnit(s[i])]
    ELSE UnitsOfAll(LowerCodePoints(CodePoints(s)))

UpperCodePoints(cps) == Flatten([i \in 1..Len(cps) |-> UpperAt(cps[i])])

\* s.toUpperCase(): within Latin-1 the table UpperOf but for the sharp s,
\* the y with diaeresis and the micro sign, else the mapping by code points
toUpperCase(s) ==
    IF \A i \in 1..Len(s) : Len(s[i]) = 1 /\ s[i] \notin {"ß", "ÿ", "µ"}
    THEN [i \in 1..Len(s) |-> IF s[i] \in DOMAIN UpperOf THEN UpperOf[s[i]] ELSE s[i]]
    ELSE UnitsOfAll(UpperCodePoints(CodePoints(s)))

\* c.toLowerCase() and c.toUpperCase() for one code unit c: a string
ToLowerChar(c) == toLowerCase(<<c>>)

ToUpperChar(c) == toUpperCase(<<c>>)

\* [a-z]
IsLowerLetter(c) == c \in LowerSet

\* \w
IsWordChar(c) == c \in LowerSet \/ c \in UpperSet \/ IsDigit(c) \/ c = "_"

\* Canonicalize of the /i flag: the upper case of c when that is one code
\* unit, and no ASCII letter for a c outside ASCII
CanonicalOf(c, u) ==
    IF Len(u) # 1 THEN c
    ELSE IF u[1] \in UpperSet THEN c
    ELSE u[1]

Canonicalize(c) ==
    IF c \in DOMAIN UpperOf THEN UpperOf[c]
    ELSE IF Len(c) = 1 /\ c \notin {"ß", "ÿ", "µ"} THEN c
    ELSE CanonicalOf(c, ToUpperChar(c))

SetMin(S) == CHOOSE m \in S : \A n \in S : m <= n

SetMax(S) == CHOOSE m \in S : \A n \in S : m >= n

\* s.substring(p - 1): the characters of s from position p (1-based) on
From(s, p) == SubSeq(s, p, Len(s))

\* first position >= p of s that holds no whitespace, Len(s) + 1 if none
RECURSIVE SkipSpaces(_, _)
SkipSpaces(s, p) ==
    IF p <= Len(s) /\ IsSpace(s[p]) THEN SkipSpaces(s, p + 1) ELSE p

\* first position >= p of s that holds no digit, Len(s) + 1 if none
RECURSIVE SkipDigits(_, _)
SkipDigits(s, p) ==
    IF p <= Len(s) /\ IsDigit(s[p]) THEN SkipDigits(s, p + 1) ELSE p

\* last position <= p of s that holds no whitespace, 0 if none
RECURSIVE SkipSpacesBack(_, _)
SkipSpacesBack(s, p) ==
    IF p >= 1 /\ IsSpace(s[p]) THEN SkipSpacesBack(s, p - 1) ELSE p

trim(s) == SubSeq(s, SkipSpaces(s, 1), SkipSpacesBack(s, Len(s)))

\* the last position of the longest run from position g of s that .* can
\* match: it ends before the first line terminator
DotEnd(s, g) ==
    LET lts == {i \in g..Len(s) : IsLineTerminator(s[i])}
    IN  IF lts = {} THEN Len(s) ELSE SetMin(lts) - 1

\* \s{m,}(.+) from position p of s: the position where the group starts, 0
\* when it does not match.  The whitespace is taken greedily; when nothing
\* is left for the group it gives back up to the last character that is
\* no line terminator.
DotGroupStart(s, p, m) ==
    LET w == SkipSpaces(s, p)
        back == {g \in (p + m)..Len(s) : ~IsLineTerminator(s[g])}
    IN  IF w <= Len(s) THEN (IF w - p >= m THEN w ELSE 0)
        ELSE IF back = {} THEN 0 ELSE SetMax(back)

\* the text of the group (.+) that starts at position g
DotGroup(s, g) == SubSeq(s, g, DotEnd(s, g))

\* the literal lit stands in s at position p, under the /i flag
MatchLitCI(s, p, lit) ==
    /\ p >= 1
    /\ p + Len(lit) - 1 <= Len(s)
    /\ \A i \in 1..Len(lit) : Canonicalize(s[p + i - 1]) = Canonicalize(lit[i])

\* s.startsWith(lit)
startsWith(s, lit) == Len(lit) <= Len(s) /\ SubSeq(s, 1, Len(lit)) = lit

\* s.includes(lit)
includes(s, lit) ==
    \E p \in 1..(Len(s) - Len(lit) + 1) :
        \A i \in 1..Len(lit) : s[p + i - 1] = lit[i]

\* s.indexOf(c) for a character c, as a 1-based position; 0 when absent
indexOf(s, c) ==
    LET idx == {i \in 1..Len(s) : s[i] = c}
    IN  IF idx = {} THEN 0 ELSE SetMin(idx)

\* Matches w1 \s+ w2 \s+ ... \s+ wn (case-insensitive) in s from position p.
\* The result is the position after the match, 0 when there is none.
RECURSIVE MatchWords(_, _, _)
MatchWords(s, p, ws) ==
    IF ws = <<>> THEN p
    ELSE IF ~MatchLitCI(s, p, Head(ws)) THEN 0
    ELSE LET q == p + Len(Head(ws))
         IN  IF Len(ws) = 1 THEN q
             ELSE IF q <= Len(s) /\ IsSpace(s[q])
                  THEN MatchWords(s, SkipSpaces(s, q), Tail(ws))
                  ELSE 0

\* lines = text.split(/\n/)
RECURSIVE SplitLines(_)
SplitLines(text) ==
    LET n == indexOf(text, "\n")
    IN  IF n = 0 THEN <<text>>
        ELSE <<SubSeq(text, 1, n - 1)>> \o SplitLines(From(text, n + 1))

RECURSIVE Join(_, _)
Join(parts, sep) ==
    IF parts = <<>> THEN <<>>
    ELSE IF Len(parts) = 1 THEN parts[1]
    ELSE parts[1] \o sep \o Join(Tail(parts), sep)

\* ------------------------------------------------------------------------
\* Rule tables
\* ------------------------------------------------------------------------
AND_COMPOUNDS ==
    << Str("half and half"), Str("mac and cheese"), Str("macaroni and cheese"),
       Str("salt and pepper"), Str("bread and butter"),
       Str("peanut butter and jelly"), Str("chips and dip"),
       Str("rice and beans"), Str("oil and vinegar"), Str("cream and sugar"),
       Str("ham and cheese"), Str("surf and turf"), Str("fruit and nut"),
       Str("franks and beans") >>

\* /^dealer'?s? choice/i
MatchDealersChoice(s) ==
    /\ MatchLitCI(s, 1, Str("dealer"))
    /\ LET afterQuote == {7} \cup (IF MatchLitCI(s, 7, Str("'")) THEN {8} ELSE {})
           afterS == afterQuote \cup {q + 1 : q \in {r \in afterQuote : MatchLitCI(s, r, Str("s"))}}
       IN  \E q \in afterS : MatchLitCI(s, q, Str(" choice"))

\* the patterns that are a literal phrase; /^dealer'?s? choice/i is
\* MatchDealersChoice
DIRECTIVE_PATTERNS ==
    << Str("anything you like"), Str("whatever you like"), Str("surprise us"),
       Str("whatever looks good"), Str("your choice"),
       Str("if something looks"), Str("surprise us if something") >>

\* DIRECTIVE_PATTERNS.some(p => p.test(s))
IsDirectiveText(s) ==
    \/ \E k \in 1..Len(DIRECTIVE_PATTERNS) : MatchLitCI(s, 1, DIRECTIVE_PATTERNS[k])
    \/ MatchDealersChoice(s)

\* /^aisle\s+\d+.*:/i
MatchAisleHeader(s) ==
    /\ MatchLitCI(s, 1, Str("aisle"))
    /\ 6 <= Len(s) /\ IsSpace(s[6])
    /\ LET d == SkipSpaces(s, 6)
       IN  /\ d <= Len(s) /\ IsDigit(s[d])
           /\ \E i \in (d + 1)..DotEnd(s, d) : s[i] = ":"

\* the header patterns made of words separated by \s+
HEADER_PATTERNS ==
    << <<Str("across"), Str("back")>>,
       <<Str("back"), Str("of"), Str("the"), Str("store")>>,
       <<Str("back"), Str("of"), Str("store")>>,
       <<Str("last"), Str("aisle")>>,
       <<Str("first"), Str("aisle")>>,
       <<Str("freezer"), Str("section")>>,
       <<Str("frozen"), Str("section")>>,
       <<Str("dairy"), Str("section")>>,
       <<Str("deli"), Str("section")>>,
       <<Str("produce"), Str("section")>>,
       <<Str("bakery"), Str("section")>>,
       <<Str("meat"), Str("section")>> >>

\* HEADER_PATTERNS.some(p => p.test(line))
IsHeader(line) ==
    \/ MatchAisleHeader(line)
    \/ \E k \in 1..Len(HEADER_PATTERNS) : MatchWords(line, 1, HEADER_PATTERNS[k]) # 0

\* ------------------------------------------------------------------------
\* Stage 1: splitIntoBlocks
\* ------------------------------------------------------------------------
\* s.replace(/\s*\(.*?\)\s*/g, ''), scanning s from position p
RECURSIVE StripParens(_, _)
StripParens(s, p) ==
    IF p > Len(s) THEN <<>>
    ELSE LET q == SkipSpaces(s, p)
             closes == {r \in (q + 1)..DotEnd(s, q) : s[r] = ")"}
         IN  IF q <= Len(s) /\ s[q] = "(" /\ closes # {}
             THEN StripParens(s, SkipSpaces(s, SetMin(closes) + 1))
             ELSE <<s[p]>> \o StripParens(s, p + 1)

\* s.replace(/:.*$/, '')
StripFromColon(s) ==
    LET colons == {i \in 1..Len(s) : s[i] = ":" /\ DotEnd(s, i) = Len(s)}
    IN  IF colons = {} THEN s ELSE SubSeq(s, 1, SetMin(colons) - 1)

SectionName(line) == trim(StripFromColon(StripParens(line, 1)))

\* the block pushed for the inline content after a header's colon
InlineBlocks(line, currentSection) ==
    LET colonIdx == indexOf(line, ":")
        afterColon == trim(From(line, colonIdx + 1))
    IN  IF colonIdx # 0 /\ afterColon # <<>>
        THEN << [type |-> IF IsDirectiveText(afterColon) THEN "directive" ELSE "items",
                 text |-> afterColon, section |-> currentSection, raw |-> line] >>
        ELSE <<>>

\* BlocksOfLines with a blank line ending the current section
RECURSIVE BlocksOfLines_BlankResets(_, _)
BlocksOfLines_BlankResets(lines, currentSection) ==
    IF lines = <<>> THEN <<>>
    ELSE LET line == trim(Head(lines))
         IN  IF line = <<>> THEN BlocksOfLines_BlankResets(Tail(lines), Null)
             ELSE IF IsHeader(line)
                  THEN InlineBlocks(line, SectionName(line))
                       \o BlocksOfLines_BlankResets(Tail(lines), SectionName(line))
                  ELSE << [type |-> "items", text |-> line,
                           section |-> currentSection, raw |-> line] >>
                       \o BlocksOfLines_BlankResets(Tail(lines), currentSection)

\* the loop over the lines, from the section that is current before them
RECURSIVE BlocksOfLines(_, _)
BlocksOfLines(lines, currentSection) ==
    IF lines = <<>> THEN <<>>
    ELSE LET line == trim(Head(lines))
         IN  IF line = <<>> THEN BlocksOfLines(Tail(lines), currentSection)
             ELSE IF IsHeader(line)
                  THEN InlineBlocks(line, SectionName(line))
                       \o BlocksOfLines(Tail(lines), SectionName(line))
                  ELSE << [type |-> "items", text |-> line,
                           section |-> currentSection, raw |-> line] >>
                       \o BlocksOfLines(Tail(lines), currentSection)

splitIntoBlocks(text) == BlocksOfLines(SplitLines(text), Null)

\* ------------------------------------------------------------------------
\* Stage 2: expandLine
\* ------------------------------------------------------------------------
\* the alternatives of CATEGORY_PREFIX_RE: the words (separated by \s*) and
\* whether a final "s" is optional
CATEGORY_WORDS ==
    << [w |-> <<Str("fruit")>>, s |-> TRUE],      [w |-> <<Str("veggies")>>, s |-> FALSE],
       [w |-> <<Str("vegetable")>>, s |-> TRUE],  [w |-> <<Str("cereal")>>, s |-> FALSE],
       [w |-> <<Str("cold"), Str("cut")>>, s |-> TRUE],
       [w |-> <<Str("snack")>>, s |-> TRUE],      [w |-> <<Str("drink")>>, s |-> TRUE],
       [w |-> <<Str("beverage")>>, s |-> TRUE],   [w |-> <<Str("meat")>>, s |-> TRUE],
       [w |-> <<Str("dairy")>>, s |-> FALSE],     [w |-> <<Str("frozen")>>, s |-> FALSE],
       [w |-> <<Str("bread")>>, s |-> FALSE],     [w |-> <<Str("condiment")>>, s |-> TRUE],
       [w |-> <<Str("spice")>>, s |-> TRUE],      [w |-> <<Str("herb")>>, s |-> TRUE] >>

\* position after one alternative of CATEGORY_PREFIX_RE at the start of s
\* (0 when it does not stand there); only "cold\s*cuts?" has two words
CategoryWordEnd(s, alt) ==
    LET e1 == IF MatchLitCI(s, 1, alt.w[1]) THEN 1 + Len(alt.w[1]) ELSE 0
        e2 == IF e1 = 0 \/ Len(alt.w) = 1 THEN e1
              ELSE IF MatchLitCI(s, SkipSpaces(s, e1), alt.w[2])
                   THEN SkipSpaces(s, e1) + Len(alt.w[2]) ELSE 0
    IN  IF e2 # 0 /\ alt.s /\ MatchLitCI(s, e2, Str("s")) THEN e2 + 1 ELSE e2

\* \s*(?:\([^)]*\)\s*)?: from position e; the position of the colon, or 0
CategoryColon(s, e) ==
    LET q == SkipSpaces(s, e)
        closes == {r \in (q + 1)..Len(s) : s[r] = ")"}
        q2 == IF q <= Len(s) /\ s[q] = "(" /\ closes # {}
              THEN SkipSpaces(s, SetMin(closes) + 1) ELSE q
    IN  IF q2 <= Len(s) /\ s[q2] = ":" THEN q2 ELSE 0

\* text.match(CATEGORY_PREFIX_RE): matched, the group and the match length
\* an alternative that ends before position e is followed by the colon
CategoryHit(text, e) == e # 0 /\ CategoryColon(text, e) # 0

\* the match of the alternative that ends before position e
CategoryGroups(text, e) ==
    [matched |-> TRUE, group |-> SubSeq(text, 1, e - 1), len |-> CategoryColon(text, e)]

\* the match of the first of the alternatives hits that match
CategoryFirstHit(text, hits) ==
    IF hits = {} THEN [matched |-> FALSE, group |-> <<>>, len |-> 0]
    ELSE CategoryGroups(text, CategoryWordEnd(text, CATEGORY_WORDS[SetMin(hits)]))

CategoryMatch(text) ==
    CategoryFirstHit(text, {k \in 1..Len(CATEGORY_WORDS) :
                               CategoryHit(text, CategoryWordEnd(text, CATEGORY_WORDS[k]))})

QTY_PREFIX_UNITS == <<Str("bag"), Str("can"), Str("box"), Str("pack"), Str("ct"), Str("lb")>>

SHARED_QTY_UNITS ==
    <<Str("bag"), Str("can"), Str("box"), Str("pack"), Str("ct"), Str("lb"),
      Str("bottle"), Str("jar"), Str("bunch")>>

\* ^\d+\s+(u1|u2|...)s?\s+each from the start of s: the position after
\* "each", or 0 when it does not match
QtyEachEnd(s, units) ==
    LET d == SkipDigits(s, 1)
        u == SkipSpaces(s, d)
        ends == {e \in 1..(Len(s) + 1) :
                    \E k \in 1..Len(units) :
                        /\ MatchLitCI(s, u, units[k])
                        /\ \E a \in {u + Len(units[k])} \cup
                                    (IF MatchLitCI(s, u + Len(units[k]), Str("s"))
                                     THEN {u + Len(units[k]) + 1} ELSE {}) :
                              /\ a <= Len(s) /\ IsSpace(s[a])
                              /\ MatchLitCI(s, SkipSpaces(s, a), Str("each"))
                              /\ e = SkipSpaces(s, a) + 4}
    IN  IF d > 1 /\ d <= Len(s) /\ IsSpace(s[d]) /\ ends # {} THEN SetMin(ends) ELSE 0

\* /^\d+\s+(bag|can|box|pack|ct|lb)s?\s+each$/i.test(before)
isQtyPrefix(before) == QtyEachEnd(before, QTY_PREFIX_UNITS) = Len(before) + 1

\* /\band\b/i.test(s)
HasWordAnd(s) ==
    \E p \in 1..Len(s) :
        /\ MatchLitCI(s, p, Str("and"))
        /\ (p = 1 \/ ~IsWordChar(s[p - 1]))
        /\ (p + 3 > Len(s) \/ ~IsWordChar(s[p + 3]))

\* text.match(/^([^,:]{3,}):\s*(.+)/): matched, and both groups trimmed
GenericColonMatch(text) ==
    LET stops == {i \in 1..Len(text) : text[i] \in {",", ":"}}
        k == IF stops = {} THEN 0 ELSE SetMin(stops)
        g == DotGroupStart(text, k + 1, 0)
    IN  IF k >= 4 /\ text[k] = ":" /\ g # 0
        THEN [matched |-> TRUE, before |-> trim(SubSeq(text, 1, k - 1)),
              after |-> trim(DotGroup(text, g))]
        ELSE [matched |-> FALSE, before |-> <<>>, after |-> <<>>]

\* the category prefix step: the category (or Null) and the remaining text
CategoryOfMatches(text0, catMatch, genericColonMatch) ==
    IF catMatch.matched
    THEN [category |-> trim(catMatch.group), text |-> trim(From(text0, catMatch.len + 1))]
    ELSE IF /\ genericColonMatch.matched
            /\ ~isQtyPrefix(genericColonMatch.before)
            /\ (includes(genericColonMatch.after, Str(","))
                \/ HasWordAnd(genericColonMatch.after))
         THEN [category |-> genericColonMatch.before, text |-> genericColonMatch.after]
         ELSE [category |-> Null, text |-> text0]

ExtractCategory(text0) ==
    CategoryOfMatches(text0, CategoryMatch(text0), GenericColonMatch(text0))

\* the shared quantity step: sharedQty (or Null) and the remaining text
SharedQtyOfMatch(text, e) ==
    LET c == SkipSpaces(text, e)
    IN  IF e # 0 /\ c <= Len(text) /\ text[c] = ":"
        THEN [sharedQty |-> trim(SubSeq(text, 1, e - 1)),
              text |-> trim(From(text, SkipSpaces(text, c + 1)))]
        ELSE [sharedQty |-> Null, text |-> text]

ExtractSharedQty(text) == SharedQtyOfMatch(text, QtyEachEnd(text, SHARED_QTY_UNITS))

\* text.split(/\s*,\s*/) followed by seg.trim() on every segment
RECURSIVE SplitCommas(_)
SplitCommas(s) ==
    LET n == indexOf(s, ",")
    IN  IF n = 0 THEN <<trim(s)>>
        ELSE <<trim(SubSeq(s, 1, n - 1))>> \o SplitCommas(From(s, n + 1))

\* the last position of s that holds no whitespace, 0 if none
LastNonSpace(s) == SkipSpacesBack(s, Len(s))

\* trimmed.replace(/\.\s*$/, '').trim()
StripTrailingPeriod(s) ==
    IF LastNonSpace(s) # 0 /\ s[LastNonSpace(s)] = "."
    THEN trim(SubSeq(s, 1, LastNonSpace(s) - 1))
    ELSE trim(s)

\* text.split(/\s+and\s+/i): p starts the current part, q is the scan position
RECURSIVE SplitAndFrom(_, _, _)
SplitAndFrom(s, p, q) ==
    IF q > Len(s) THEN <<SubSeq(s, p, Len(s))>>
    ELSE LET a == SkipSpaces(s, q)
         IN  IF /\ IsSpace(s[q])
                /\ MatchLitCI(s, a, Str("and"))
                /\ a + 3 <= Len(s) /\ IsSpace(s[a + 3])
             THEN <<SubSeq(s, p, q - 1)>>
                  \o SplitAndFrom(s, SkipSpaces(s, a + 3), SkipSpaces(s, a + 3))
             ELSE SplitAndFrom(s, p, q + 1)

\* parts.map(p => p.trim()).filter(Boolean)
TrimAll(parts) ==
    LET t == [i \in 1..Len(parts) |-> trim(parts[i])]
    IN  SelectSeq(t, LAMBDA x : x # <<>>)

\* lower.includes(compound) for some compound
IncludesCompound(lower) ==
    \E k \in 1..Len(AND_COMPOUNDS) : includes(lower, AND_COMPOUNDS[k])

\* lower = text.toLowerCase(), and the loop over AND_COMPOUNDS
ContainsCompound(text) == IncludesCompound(toLowerCase(text))

splitOnAnd(text) ==
    IF ContainsCompound(text) THEN <<text>>
    ELSE LET parts == SplitAndFrom(text, 1, 1)
         IN  IF Len(parts) > 1 THEN TrimAll(parts) ELSE <<text>>

\* the segment loop: the directive entries pushed to results
RECURSIVE SegmentDirectives(_, _, _)
SegmentDirectives(segments, raw, section) ==
    IF segments = <<>> THEN <<>>
    ELSE LET trimmed == trim(Head(segments))
             rest == SegmentDirectives(Tail(segments), raw, section)
         IN  IF trimmed # <<>> /\ IsDirectiveText(trimmed)
             THEN <<[raw |-> raw, directive |-> trimmed, section |-> section]>> \o rest
             ELSE rest

\* the segment loop: the texts pushed to items
RECURSIVE SegmentItems(_)
SegmentItems(segments) ==
    IF segments = <<>> THEN <<>>
    ELSE LET trimmed == trim(Head(segments))
             cleaned == StripTrailingPeriod(trimmed)
             rest == SegmentItems(Tail(segments))
         IN  IF trimmed = <<>> \/ IsDirectiveText(trimmed) \/ cleaned = <<>>
             THEN rest
             ELSE splitOnAnd(cleaned) \o rest

\* the loop over items: one entry pushed to results for each
ExpandItems(block, category, sharedQty, items) ==
    [i \in 1..Len(items) |->
        [raw |-> block.raw, itemText |-> trim(items[i]), section |-> block.section,
         category |-> category, sharedQty |-> sharedQty]]

\* results after both loops: the directive entries, then the item entries
ExpandSegments(block, category, sharedQty, segments) ==
    SegmentDirectives(segments, block.raw, block.section)
    \o ExpandItems(block, category, sharedQty, SegmentItems(segments))

\* expandLine from the shared quantity step on (q is its outcome)
ExpandAfterSharedQty(block, category, q) ==
    ExpandSegments(block, category, q.sharedQty, SplitCommas(q.text))

\* expandLine from the category step on (c is its outcome)
ExpandAfterCategory(block, c) ==
    ExpandAfterSharedQty(block, c.category, ExtractSharedQty(c.text))

expandLine(block) ==
    IF block.type = "directive"
    THEN <<[raw |-> block.raw, directive |-> block.text, section |-> block.section]>>
    ELSE ExpandAfterCategory(block, ExtractCategory(block.text))

\* ------------------------------------------------------------------------
\* Stage 3: parseItem
\* ------------------------------------------------------------------------
ABBREVIATIONS ==
    << <<Str("oj"), Str("orange juice")>>,
       <<Str("evoo"), Str("extra virgin olive oil")>>,
       <<Str("pb"), Str("peanut butter")>>,
       <<Str("pb&j"), Str("peanut butter and jelly")>>,
       <<Str("dz"), Str("dozen")>>,       <<Str("btl"), Str("bottle")>>,
       <<Str("btls"), Str("bottles")>>,   <<Str("pkg"), Str("package")>>,
       <<Str("pkt"), Str("packet")>>,     <<Str("tbsp"), Str("tablespoon")>>,
       <<Str("tsp"), Str("teaspoon")>>,   <<Str("gal"), Str("gallon")>>,
       <<Str("qt"), Str("quart")>>,       <<Str("pt"), Str("pint")>>,
       <<Str("lg"), Str("large")>>,       <<Str("sm"), Str("small")>>,
       <<Str("med"), Str("medium")>> >>

\* ABBREVIATIONS is an object literal: a property read also finds what it
\* inherits from Object.prototype.  Of those names only these two are
\* entirely lowercase, as nameLower is; their values are truthy and are
\* no strings.
InheritedKeys == {Str("constructor"), Str("__proto__")}

HasOwnAbbreviation(nameLower) ==
    \E k \in 1..Len(ABBREVIATIONS) : ABBREVIATIONS[k][1] = nameLower

OwnAbbreviation(nameLower) ==
    ABBREVIATIONS[CHOOSE k \in 1..Len(ABBREVIATIONS) : ABBREVIATIONS[k][1] = nameLower][2]

STRIP_PREFIXES ==
    << Str("plain"), Str("fresh"), Str("deli"), Str("organic"), Str("raw"),
       Str("whole"), Str("natural"), Str("extra virgin"), Str("extra"),
       Str("large"), Str("small"), Str("medium"), Str("salted"),
       Str("unsalted"), Str("honey"), Str("smoked") >>

\* the words of each suffix pattern (separated and preceded by \s+) and
\* whether a final "s" is optional
STRIP_SUFFIXES ==
    << [w |-> <<Str("we"), Str("eat")>>, s |-> FALSE],
       [w |-> <<Str("we"), Str("like")>>, s |-> FALSE],
       [w |-> <<Str("we"), Str("use")>>, s |-> FALSE],
       [w |-> <<Str("we"), Str("need")>>, s |-> FALSE],
       [w |-> <<Str("in"), Str("a"), Str("bag")>>, s |-> FALSE],
       [w |-> <<Str("in"), Str("bag")>>, s |-> TRUE],
       [w |-> <<Str("in"), Str("water")>>, s |-> FALSE],
       [w |-> <<Str("can")>>, s |-> TRUE],
       [w |-> <<Str("bottle")>>, s |-> TRUE] >>

\* text.replace(/\(([^)]+)\)/g, ...) scanning s from p: the text that is
\* left and the trimmed contents that were pushed to notesList
RECURSIVE NotesScan(_, _)
NotesScan(s, p) ==
    IF p > Len(s) THEN [text |-> <<>>, notesList |-> <<>>]
    ELSE LET closes == {r \in (p + 1)..Len(s) : s[r] = ")"}
         IN  IF s[p] = "(" /\ closes # {} /\ SetMin(closes) > p + 1
             THEN LET rest == NotesScan(s, SetMin(closes) + 1)
                  IN  [text |-> rest.text,
                       notesList |-> <<trim(SubSeq(s, p + 1, SetMin(closes) - 1))>>
                                     \o rest.notesList]
             ELSE LET rest == NotesScan(s, p + 1)
                  IN  [text |-> <<s[p]>> \o rest.text, notesList |-> rest.notesList]

\* the end of "1/2 <sep> 1/2" standing at p (sep is "&" between \s*, or
\* "and" between \s+), 0 when it does not stand there
HalfEnd(s, p, sep) ==
    LET q == SkipSpaces(s, p + 3)
        q2 == SkipSpaces(s, q + Len(sep))
    IN  IF /\ MatchLitCI(s, p, Str("1/2"))
           /\ MatchLitCI(s, q, sep)
           /\ (sep = Str("&") \/ (q > p + 3 /\ q2 > q + Len(sep)))
           /\ MatchLitCI(s, q2, Str("1/2"))
        THEN q2 + 3 ELSE 0

\* text.replace(/1\/2\s*&\s*1\/2/gi, 'half and half') and
\* text.replace(/1\/2\s+and\s+1\/2/gi, 'half and half'), scanning from p
RECURSIVE ReplaceHalf(_, _, _)
ReplaceHalf(s, p, sep) ==
    IF p > Len(s) THEN <<>>
    ELSE IF HalfEnd(s, p, sep) # 0
         THEN Str("half and half") \o ReplaceHalf(s, HalfEnd(s, p, sep), sep)
         ELSE <<s[p]>> \o ReplaceHalf(s, p + 1, sep)

NormalizeHalf(text) == ReplaceHalf(ReplaceHalf(text, 1, Str("&")), 1, Str("and"))

\* /^dz\b/i.test(text)
HasDozenPrefix(text) ==
    MatchLitCI(text, 1, Str("dz")) /\ (Len(text) = 2 \/ ~IsWordChar(text[3]))

\* text.replace(/^dz\s*/i, '').trim()
StripDozenPrefix(text) == trim(From(text, SkipSpaces(text, 3)))

\* name.match(/^(.+?)\s+x\s*(\d+)\s*$/i): matched, group 1 and group 2
TrailingX(name) ==
    LET e == LastNonSpace(name)
        nonDigits == {i \in 1..e : ~IsDigit(name[i])}
        d == IF nonDigits = {} THEN 1 ELSE SetMax(nonDigits) + 1
        x == LastNonSpace(SubSeq(name, 1, d - 1))
        a == LastNonSpace(SubSeq(name, 1, x - 1)) + 1
        start == IF a < 2 THEN 2 ELSE a
    IN  IF /\ e # 0 /\ d <= e
           /\ x # 0 /\ Canonicalize(name[x]) = "X"
           /\ start <= x - 1
           /\ DotEnd(name, 1) >= start - 1
        THEN [matched |-> TRUE, g1 |-> SubSeq(name, 1, start - 1),
              g2 |-> SubSeq(name, d, e)]
        ELSE [matched |-> FALSE, g1 |-> <<>>, g2 |-> <<>>]

\* the class [-\u2013]: the hyphen and the en dash
DashChars == {"-", "U+2013"}

\* the positions where one alternative of the unit group of the leading
\* quantity pattern can end when it starts at u
UnitEnds(s, u, k) ==
    LET opt(E, c) == E \cup {e + 1 : e \in {f \in E : MatchLitCI(s, f, Str(c))}}
        lit(w) == IF MatchLitCI(s, u, w) THEN {u + Len(w)} ELSE {}
        packs(p) == IF p <= Len(s) /\ MatchLitCI(s, p, Str("pack"))
                    THEN {p + 4} \cup (IF MatchLitCI(s, p + 4, Str("s")) THEN {p + 5} ELSE {})
                    ELSE {}
        of(E) == {SkipSpaces(s, e) + 2 : e \in {f \in E : /\ f <= Len(s) /\ IsSpace(s[f])
                                                         /\ MatchLitCI(s, SkipSpaces(s, f), Str("of"))}}
    IN  CASE k = 1 -> opt(lit(Str("can")), "s")
          [] k = 2 -> opt(lit(Str("boxe")), "s")
          [] k = 3 -> opt(lit(Str("bag")), "s")
          [] k = 4 -> opt(lit(Str("pack")), "s")
          [] k = 5 -> opt(lit(Str("bottle")), "s")
          [] k = 6 -> opt(lit(Str("jar")), "s")
          [] k = 7 -> opt(opt(lit(Str("bunch")), "e"), "s")
          [] k = 8 -> IF MatchLitCI(s, u, Str("large")) /\ u + 5 <= Len(s) /\ IsSpace(s[u + 5])
                      THEN of(packs(SkipSpaces(s, u + 5))) ELSE {}
          [] k = 9 -> of(packs(u))

\* name.match(/^(\d+[-–]?\d*)\s+(cans?|boxes?|...|packs?\s+of)\s+(.+)/i)
LeadingQty(name) ==
    LET d1 == SkipDigits(name, 1)
        d2 == IF d1 <= Len(name) /\ name[d1] \in DashChars THEN SkipDigits(name, d1 + 1) ELSE d1
        u == SkipSpaces(name, d2)
        ok(e) == DotGroupStart(name, e, 1) # 0
        alts == {k \in 1..9 : \E e \in UnitEnds(name, u, k) : ok(e)}
    IN  IF d1 > 1 /\ u > d2 /\ alts # {}
        THEN LET e == CHOOSE f \in UnitEnds(name, u, SetMin(alts)) : ok(f)
             IN  [matched |-> TRUE, g1 |-> SubSeq(name, 1, d2 - 1),
                  g2 |-> SubSeq(name, u, e - 1),
                  g3 |-> DotGroup(name, DotGroupStart(name, e, 1))]
        ELSE [matched |-> FALSE, g1 |-> <<>>, g2 |-> <<>>, g3 |-> <<>>]

\* name.match(/^(\d+[-–]\d+|\d+)\s+(.+)/)
LeadingNum(name) ==
    LET d1 == SkipDigits(name, 1)
        d2 == IF d1 <= Len(name) /\ name[d1] \in DashChars THEN SkipDigits(name, d1 + 1) ELSE d1
        ok(e) == DotGroupStart(name, e, 1) # 0
        e == IF d2 > d1 + 1 /\ ok(d2) THEN d2 ELSE d1
    IN  IF d1 > 1 /\ ok(e)
        THEN [matched |-> TRUE, g1 |-> SubSeq(name, 1, e - 1),
              g2 |-> DotGroup(name, DotGroupStart(name, e, 1))]
        ELSE [matched |-> FALSE, g1 |-> <<>>, g2 |-> <<>>]

\* the quantity extraction: qty and name after the three patterns
\* qty and name after the trailing "x2" pattern
TakeTrailingX(text, trailingX) ==
    IF trailingX.matched
    THEN [qty |-> trailingX.g2, name |-> trim(trailingX.g1)]
    ELSE [qty |-> <<>>, name |-> text]

QtyAfterTrailingX(text) == TakeTrailingX(text, TrailingX(text))

\* TakeLeadingQty tried also when the trailing pattern already gave a qty
TakeLeadingQty_IgnoresQty(qn, leadingQty) ==
    IF leadingQty.matched
    THEN [qty |-> trim(leadingQty.g1 \o Str(" ") \o leadingQty.g2),
          name |-> trim(leadingQty.g3)]
    ELSE qn

\* qty and name after the leading "4 cans" pattern, tried if (!qty)
TakeLeadingQty(qn, leadingQty) ==
    IF qn.qty = <<>> /\ leadingQty.matched
    THEN [qty |-> trim(leadingQty.g1 \o Str(" ") \o leadingQty.g2),
          name |-> trim(leadingQty.g3)]
    ELSE qn

QtyAfterLeadingQty(qn) == TakeLeadingQty(qn, LeadingQty(qn.name))

\* qty and name after the leading plain number pattern, tried if (!qty)
TakeLeadingNum(qn, leadingNum) ==
    IF /\ qn.qty = <<>> /\ leadingNum.matched
       /\ (~IsLowerLetter(leadingNum.g2[1]) \/ Len(leadingNum.g2) > 2)
    THEN [qty |-> leadingNum.g1, name |-> trim(leadingNum.g2)]
    ELSE qn

QtyAfterLeadingNum(qn) == TakeLeadingNum(qn, LeadingNum(qn.name))

ExtractQty(text) == QtyAfterLeadingNum(QtyAfterLeadingQty(QtyAfterTrailingX(text)))

\* s.split(/\s+/) for a trimmed s
RECURSIVE SplitWords(_)
SplitWords(s) ==
    LET sp == {i \in 1..Len(s) : IsSpace(s[i])}
    IN  IF sp = {} THEN <<s>>
        ELSE <<SubSeq(s, 1, SetMin(sp) - 1)>> \o SplitWords(From(s, SkipSpaces(s, SetMin(sp))))

\* \s+(.+)$ from position p of s: the position where the group starts, 0
\* when it does not match; the group has to reach the end of s
OrRightStart(s, p) ==
    LET g == DotGroupStart(s, p, 1)
    IN  IF g # 0 /\ DotEnd(s, g) = Len(s) THEN g ELSE 0

\* lookupTerm.match(/^(.+?)\s+or\s+(.+)$/i): matched, and both groups trimmed
OrMatch(s) ==
    LET starts == {j \in 2..Len(s) :
                      /\ IsSpace(s[j])
                      /\ DotEnd(s, 1) >= j - 1
                      /\ MatchLitCI(s, SkipSpaces(s, j), Str("or"))
                      /\ OrRightStart(s, SkipSpaces(s, j) + 2) # 0}
    IN  IF starts = {} THEN [matched |-> FALSE, left |-> <<>>, right |-> <<>>]
        ELSE [matched |-> TRUE,
              left |-> trim(SubSeq(s, 1, SetMin(starts) - 1)),
              right |-> trim(From(s, OrRightStart(s, SkipSpaces(s, SetMin(starts)) + 2)))]

\* the "or" alternatives: the noun the lookup term is resolved to
ResolveWords(right, rightWords, leftWords) ==
    LET lastRight == toLowerCase(rightWords[Len(rightWords)])
        lastLeft == toLowerCase(leftWords[Len(leftWords)])
    IN  IF lastRight = lastLeft THEN lastRight
        ELSE IF Len(rightWords) > 1 THEN rightWords[Len(rightWords)]
        ELSE IF Len(leftWords) > 1 THEN leftWords[Len(leftWords)]
        ELSE right

ResolveOrMatch(name, orMatch) ==
    IF ~orMatch.matched THEN name
    ELSE ResolveWords(orMatch.right, SplitWords(orMatch.right), SplitWords(orMatch.left))

ResolveOr(name) == ResolveOrMatch(name, OrMatch(name))

\* the loop over STRIP_PREFIXES, from the k-th prefix on
RECURSIVE StripPrefixesLoop(_, _, _)
RECURSIVE StripPrefixes(_, _)
StripPrefixesLoop(lookupTerm, lookupLower, k) ==
    IF k > Len(STRIP_PREFIXES) THEN lookupTerm
    ELSE IF startsWith(lookupLower, STRIP_PREFIXES[k] \o Str(" "))
         THEN StripPrefixes(trim(From(lookupTerm, Len(STRIP_PREFIXES[k]) + 1)), k + 1)
         ELSE StripPrefixesLoop(lookupTerm, lookupLower, k + 1)

\* lookupLower = lookupTerm.toLowerCase(), and the loop
StripPrefixes(lookupTerm, k) == StripPrefixesLoop(lookupTerm, toLowerCase(lookupTerm), k)

\* lookupTerm.replace(suffix, '').trim() for one pattern of STRIP_SUFFIXES
StripSuffix(s, suffix) ==
    LET ends(p) == LET e == MatchWords(s, SkipSpaces(s, p), suffix.w)
                   IN  \/ e = Len(s) + 1
                       \/ e = Len(s) /\ suffix.s /\ MatchLitCI(s, e, Str("s"))
        starts == {p \in 1..Len(s) : IsSpace(s[p]) /\ ends(p)}
    IN  IF starts = {} THEN trim(s) ELSE trim(SubSeq(s, 1, SetMin(starts) - 1))

\* the loop over STRIP_SUFFIXES, from the k-th pattern on
RECURSIVE StripSuffixes(_, _)
StripSuffixes(lookupTerm, k) ==
    IF k > Len(STRIP_SUFFIXES) THEN lookupTerm
    ELSE StripSuffixes(StripSuffix(lookupTerm, STRIP_SUFFIXES[k]), k + 1)

\* lookupTerm.replace(/\bveggies\b/gi, 'vegetables'), scanning from p
RECURSIVE ReplaceVeggies(_, _)
ReplaceVeggies(s, p) ==
    IF p > Len(s) THEN <<>>
    ELSE IF /\ MatchLitCI(s, p, Str("veggies"))
            /\ (p = 1 \/ ~IsWordChar(s[p - 1]))
            /\ (p + 7 > Len(s) \/ ~IsWordChar(s[p + 7]))
         THEN Str("vegetables") \o ReplaceVeggies(s, p + 7)
         ELSE <<s[p]>> \o ReplaceVeggies(s, p + 1)

\* s.replace(/\s+/g, ' '), scanning from p
RECURSIVE CollapseSpaces(_, _)
CollapseSpaces(s, p) ==
    IF p > Len(s) THEN <<>>
    ELSE IF IsSpace(s[p]) THEN <<" ">> \o CollapseSpaces(s, SkipSpaces(s, p))
         ELSE <<s[p]>> \o CollapseSpaces(s, p + 1)

\* s.replace(/\s+/g, ' ').trim()
CleanWhitespace(s) == trim(CollapseSpaces(s, 1))

\* the lookup term built from the name
BuildLookupTerm(name) ==
    toLowerCase(CleanWhitespace(ReplaceVeggies(
        StripSuffixes(StripPrefixes(ResolveOr(name), 1), 1), 1)))

\* name.charAt(0).toUpperCase() + name.slice(1) when name is all lowercase
Capitalize(name) ==
    IF name = toLowerCase(name) /\ name # <<>>
    THEN ToUpperChar(name[1]) \o Tail(name)
    ELSE name

\* if (entry.directive)
IsDirectiveEntry(entry) == "directive" \in DOMAIN entry /\ Truthy(entry.directive)

\* entry.category || null; the directive entries of expandLine carry no
\* category
OptionalCategory(entry) ==
    IF "category" \in DOMAIN entry THEN OrNull(entry.category) ELSE Null

\* DirectiveRecord with the directive text left in name
DirectiveRecord_KeepsName(entry) ==
    [raw |-> entry.raw, name |-> entry.directive, qty |-> <<>>, notes |-> <<>>,
     lookupTerm |-> Null, category |-> OptionalCategory(entry),
     section |-> OrNull(entry.section), directive |-> entry.directive]

\* the record returned for a directive entry
DirectiveRecord(entry) ==
    [raw |-> entry.raw, name |-> Null, qty |-> <<>>, notes |-> <<>>,
     lookupTerm |-> Null, category |-> OptionalCategory(entry),
     section |-> OrNull(entry.section), directive |-> entry.directive]

\* the name after the dozen prefix and the quantity were taken from the text
\* the dozen multiplier and the shared quantity applied to the qty found
ApplyDozenAndShared(qn, dozenMultiplier, sharedQty) ==
    [qty |-> IF dozenMultiplier
             THEN IF qn.qty # <<>> THEN qn.qty \o Str(" dozen") ELSE Str("dozen")
             ELSE IF qn.qty = <<>> /\ Truthy(sharedQty) THEN sharedQty ELSE qn.qty,
     name |-> qn.name]

\* qty and name of the text left after the notes and the half-and-half step
QtyAndNameOfText(text, sharedQty) ==
    ApplyDozenAndShared(
        ExtractQty(IF HasDozenPrefix(text) THEN StripDozenPrefix(text) ELSE text),
        HasDozenPrefix(text), sharedQty)

ItemQtyAndName(entry) ==
    QtyAndNameOfText(NormalizeHalf(trim(NotesScan(entry.itemText, 1).text)),
                     entry.sharedQty)

\* ABBREVIATIONS[nameLower] is truthy and no string: lookupTerm.match(...)
\* then raises a TypeError
ParseItemThrows(entry) ==
    /\ ~IsDirectiveEntry(entry)
    /\ toLowerCase(trim(ItemQtyAndName(entry).name)) \in InheritedKeys

\* the name after the abbreviation lookup
ExpandAbbreviation(name) ==
    IF HasOwnAbbreviation(toLowerCase(trim(name)))
    THEN OwnAbbreviation(toLowerCase(trim(name)))
    ELSE name

\* the record returned for an item entry, from its qty and its name after
\* the abbreviation lookup
ItemRecord(entry, qty, name) ==
    [raw |-> entry.raw,
     name |-> Capitalize(CleanWhitespace(name)),
     qty |-> qty,
     notes |-> Join(NotesScan(entry.itemText, 1).notesList, Str("; ")),
     lookupTerm |-> BuildLookupTerm(name),
     category |-> OrNull(entry.category),
     section |-> OrNull(entry.section),
     directive |-> Null]

ItemRecordOf(entry, qn) == ItemRecord(entry, qn.qty, ExpandAbbreviation(qn.name))

parseItem(entry) ==
    IF IsDirectiveEntry(entry) THEN DirectiveRecord(entry)
    ELSE ItemRecordOf(entry, ItemQtyAndName(entry))

\* ------------------------------------------------------------------------
\* parseShoppingList
\* ------------------------------------------------------------------------
\* MapParseItem with the directive entries filtered out
MapParseItem_SkipDirectives(entries) ==
    LET kept == SelectSeq(entries, LAMBDA e : ~IsDirectiveEntry(e))
    IN  [i \in 1..Len(kept) |-> parseItem(kept[i])]

\* expanded.map(parseItem)
MapParseItem(entries) == [i \in 1..Len(entries) |-> parseItem(entries[i])]

\* ------------------------------------------------------------------------
\* shop.js: the aisle text of the API, the aisle order
\* ------------------------------------------------------------------------
DEFAULT_STORE_ID == Str("592")

\* storeArg ? storeArg.split('=')[1] : DEFAULT_STORE_ID, storeArg the first
\* argument that starts with "--store=" (Null when there is none)
StoreIdOf(storeArg) ==
    IF storeArg = Null THEN DEFAULT_STORE_ID
    ELSE LET rest == From(storeArg, 9)
             eqs == {i \in 1..Len(rest) : rest[i] = "="}
         IN  IF eqs = {} THEN rest ELSE SubSeq(rest, 1, SetMin(eqs) - 1)

DEPARTMENTS ==
    << Str("INTERNATIONAL CHEESE"), Str("CUSTOMER SERVICE"), Str("DAIRY/KOSHER"),
       Str("PRODUCE"), Str("BAKERY"), Str("BACKWALL"), Str("DELI"), Str("APPY"),
       Str("MEAT"), Str("SEAFOOD"), Str("FROZEN"), Str("PHARMACY"), Str("FLORAL"),
       Str("BREAD"), Str("DAIRY"), Str("HBC"), Str("NATURAL"), Str("KOSHER"),
       Str("GROCERY"), Str("BULK") >>

\* DEPT_DISPLAY[dept], in the order of DEPARTMENTS
DEPT_DISPLAY ==
    << Str("International Cheese"), Str("Customer Service"), Str("Dairy"),
       Str("Produce"), Str("Bakery"), Str("Backwall"), Str("Deli"), Str("Deli"),
       Str("Meat"), Str("Seafood"), Str("Frozen"), Str("Pharmacy"), Str("Floral"),
       Str("Bread"), Str("Dairy"), Str("Health & Beauty"), Str("Natural"),
       Str("Kosher"), Str("Grocery"), Str("Bulk") >>

UnknownAisle == [aisle |-> Str("Unknown"), bay |-> <<>>]

\* ---- parseInt(digits, 10) and the text of the Number it returns ----
\* A numeral is the sequence of the decimal digits 0..9 of a natural number,
\* most significant first and without leading zeros (<<>> is zero).  The
\* arithmetic is done on limbs: the digits in groups of four, that is the
\* number in base 10000, again without leading zeros.
DigitValue(c) == CHOOSE v \in 0..9 : Str("0123456789")[v + 1] = c

Numeral(a) ==
    LET nz == {i \in 1..Len(a) : a[i] # 0}
    IN  IF nz = {} THEN <<>> ELSE From(a, SetMin(nz))

Zeros(n) == [i \in 1..n |-> 0]

\* the limbs of the numeral a, from a padded to groups of four digits
LimbsOfPadded(p) ==
    [i \in 1..(Len(p) \div 4) |->
        1000 * p[4 * i - 3] + 100 * p[4 * i - 2] + 10 * p[4 * i - 1] + p[4 * i]]

Limbs(a) == LimbsOfPadded(Zeros((4 - (Len(a) % 4)) % 4) \o a)

\* the numeral of the limbs l
Digits(l) ==
    Numeral([i \in 1..(4 * Len(l)) |->
                (l[(i + 3) \div 4] \div <<1000, 100, 10, 1>>[((i - 1) % 4) + 1]) % 10])

\* a < b, for numerals and for limbs
Less(a, b) ==
    \/ Len(a) < Len(b)
    \/ /\ Len(a) = Len(b)
       /\ \E i \in 1..Len(a) : a[i] < b[i] /\ \A j \in 1..(i - 1) : a[j] = b[j]

\* the limbs of floor((r * 10000^Len(l) + l) / m) for a divisor m up to 8192
RECURSIVE DivLimbs(_, _, _)
DivLimbs(l, m, r) ==
    IF l = <<>> THEN <<>>
    ELSE <<(10000 * r + l[1]) \div m>> \o DivLimbs(Tail(l), m, (10000 * r + l[1]) % m)

\* l mod m for a power of two m up to 8192, which divides 10000^4: the
\* remainder of the last four limbs
Rem(l, m) ==
    LET t == Zeros(4) \o l
        n == Len(t)
    IN  (((((((t[n - 3] % m) * 10000) + t[n - 2]) % m) * 10000 + t[n - 1]) % m)
            * 10000 + t[n]) % m

\* the limbs of m * l + c for a factor m up to 8192 and a carry c
RECURSIVE MulLimbs(_, _, _)
MulLimbs(l, m, c) ==
    IF l = <<>> THEN (IF c = 0 THEN <<>> ELSE <<c>>)
    ELSE MulLimbs(SubSeq(l, 1, Len(l) - 1), m, (m * l[Len(l)] + c) \div 10000)
         \o <<(m * l[Len(l)] + c) % 10000>>

\* the limbs of a + b + c for a carry c
RECURSIVE AddLimbs(_, _, _)
AddLimbs(a, b, c) ==
    IF a = <<>> THEN MulLimbs(b, 1, c)
    ELSE IF b = <<>> THEN MulLimbs(a, 1, c)
    ELSE AddLimbs(SubSeq(a, 1, Len(a) - 1), SubSeq(b, 1, Len(b) - 1),
                  (a[Len(a)] + b[Len(b)] + c) \div 10000)
         \o <<(a[Len(a)] + b[Len(b)] + c) % 10000>>

\* the limbs of l - 1, for l above zero (a leading zero limb may be left)
RECURSIVE DecLimbs(_)
DecLimbs(l) ==
    IF l[Len(l)] > 0 THEN SubSeq(l, 1, Len(l) - 1) \o <<l[Len(l)] - 1>>
    ELSE DecLimbs(SubSeq(l, 1, Len(l) - 1)) \o <<9999>>

\* the limbs of l * 2^e
RECURSIVE Scale(_, _)
Scale(l, e) ==
    IF e = 0 THEN l
    ELSE IF e >= 13 THEN MulLimbs(Scale(l, e - 13), 8192, 0)
    ELSE MulLimbs(Scale(l, e - 1), 2, 0)

TwoTo52 == Limbs([i \in 1..16 |-> DigitValue(Str("4503599627370496")[i])])

TwoTo53 == MulLimbs(TwoTo52, 2, 0)

TwoTo54 == MulLimbs(TwoTo52, 4, 0)

TwoTo67 == MulLimbs(TwoTo54, 8192, 0)

\* The lower bits of l are dropped until 54 bits are left: n is what is
\* left, sticky whether a dropped bit was set, e the number of dropped bits.
RECURSIVE Reduce(_, _, _)
Reduce(l, sticky, e) ==
    IF Less(l, TwoTo54) THEN [n |-> l, sticky |-> sticky, e |-> e]
    ELSE IF Less(l, TwoTo67)
         THEN Reduce(Numeral(DivLimbs(l, 2, 0)), sticky \/ Rem(l, 2) # 0, e + 1)
         ELSE Reduce(Numeral(DivLimbs(l, 8192, 0)), sticky \/ Rem(l, 8192) # 0, e + 13)

\* the double nearest to a number of 2^53 or more, as significand q and
\* exponent e, from the 54 bits r.n: the last bit is rounded to nearest,
\* ties to the even significand
RoundHalfEven(r, q) ==
    [q |-> IF Rem(r.n, 2) = 1 /\ (r.sticky \/ Rem(q, 2) = 1) THEN MulLimbs(q, 1, 1) ELSE q,
     e |-> r.e + 1]

NearestDouble(r) == RoundHalfEven(r, Numeral(DivLimbs(r.n, 2, 0)))

\* The numbers that round to the double d = q * 2^e lie between d minus
\* half the gap to the double below and d plus half the gap to the double
\* above (2^up; the gap below is half of that when d is a power of two).
\* The record holds d, the doubled bounds (all as limbs) and whether the
\* bounds themselves round to d (its significand is even).
IntervalOf(q, e, up, down) ==
    [d |-> Scale(q, e),
     lo2 |-> Scale(Numeral(DecLimbs(MulLimbs(q, <<1, 2, 4>>[e + 2 - down], 0))), down),
     hi2 |-> Scale(MulLimbs(q, <<1, 2, 4>>[e + 2 - up], 1), up),
     closed |-> q = TwoTo53 \/ Rem(q, 2) = 0]

RoundingInterval(q, e) ==
    IntervalOf(q, e, IF q = TwoTo53 THEN e + 1 ELSE e,
               IF q = TwoTo53 THEN e ELSE IF q = TwoTo52 THEN e - 1 ELSE e)

\* the number with limbs c rounds to the double of the interval iv
RoundsTo(c, iv) ==
    IF iv.closed
    THEN ~Less(MulLimbs(c, 2, 0), iv.lo2) /\ ~Less(iv.hi2, MulLimbs(c, 2, 0))
    ELSE Less(iv.lo2, MulLimbs(c, 2, 0)) /\ Less(MulLimbs(c, 2, 0), iv.hi2)

\* of the numbers lo <= d <= hi the one nearer to d, of two equally near
\* the one whose last significant digit (evenLo for lo) is even
Nearer(lo, hi, d, evenLo) ==
    IF Less(MulLimbs(d, 2, 0), AddLimbs(lo, hi, 0)) THEN lo
    ELSE IF Less(AddLimbs(lo, hi, 0), MulLimbs(d, 2, 0)) THEN hi
    ELSE IF evenLo THEN lo ELSE hi

\* Number::toString: of the numbers lo and hi, which have k significant
\* digits and lie next to the double, the one that rounds to it (<<>> if
\* none does)
ShortestOf(iv, lo, hi, evenLo) ==
    IF RoundsTo(lo, iv) /\ RoundsTo(hi, iv) THEN Nearer(lo, hi, iv.d, evenLo)
    ELSE IF RoundsTo(lo, iv) THEN lo
    ELSE IF RoundsTo(hi, iv) THEN hi
    ELSE <<>>

\* the limbs of the number of the fewest significant digits, k or more,
\* that rounds to the double of iv, whose numeral is d
RECURSIVE Shortest(_, _, _)
Shortest(iv, d, k) ==
    LET c == ShortestOf(iv, Limbs(SubSeq(d, 1, k) \o Zeros(Len(d) - k)),
                        Limbs(Digits(MulLimbs(Limbs(SubSeq(d, 1, k)), 1, 1))
                              \o Zeros(Len(d) - k)),
                        d[k] % 2 = 0)
    IN  IF c # <<>> THEN c ELSE Shortest(iv, d, k + 1)

NumeralText(a) == [i \in 1..Len(a) |-> Str("0123456789")[a[i] + 1]]

\* String(num) for the integer Number with numeral c: all its digits below
\* 10^21, the exponent form from there on
NumberText(c) ==
    IF c = <<>> THEN Str("0")
    ELSE IF Len(c) <= 21 THEN NumeralText(c)
    ELSE LET k == SetMax({i \in 1..Len(c) : c[i] # 0})
         IN  NumeralText(<<c[1]>>)
             \o (IF k > 1 THEN Str(".") \o NumeralText(SubSeq(c, 2, k)) ELSE <<>>)
             \o Str("e+") \o NumeralText(Digits(<<Len(c) - 1>>))

ShortestText(iv) == NumberText(Digits(Shortest(iv, Digits(iv.d), 1)))

\* the text of the double q * 2^e; from 2^1024 on parseInt returns Infinity
RoundedText(dbl) ==
    IF dbl.e + 53 + (IF dbl.q = TwoTo53 THEN 1 ELSE 0) > 1024 THEN Str("Infinity")
    ELSE ShortestText(RoundingInterval(dbl.q, dbl.e))

\* String(parseInt(digits, 10)) for a run of digits: a number below 2^53 is
\* its own double
ParseIntOf(a, l) ==
    IF Less(l, TwoTo53) THEN NumberText(a)
    ELSE RoundedText(NearestDouble(Reduce(l, FALSE, 0)))

ParseIntNumeral(a) == ParseIntOf(a, Limbs(a))

ParseIntText(digits) ==
    ParseIntNumeral(Numeral([i \in 1..Len(digits) |-> DigitValue(digits[i])]))

\* text.replace(/^Aisle\s+/i, '').trim()
StripAislePrefix(text) ==
    IF MatchLitCI(text, 1, Str("aisle")) /\ Len(text) > 5 /\ IsSpace(text[6])
    THEN trim(From(text, SkipSpaces(text, 6)))
    ELSE trim(text)

\* text.match(/^AISLE\s*(\d+)$/i) || text.match(/^(\d+)([A-Za-z]?)$/)
NumMatch(text) ==
    LET p == SkipSpaces(text, 6)
        d == SkipDigits(text, 1)
    IN  IF MatchLitCI(text, 1, Str("aisle")) /\ p <= Len(text)
           /\ SkipDigits(text, p) = Len(text) + 1
        THEN [matched |-> TRUE, g1 |-> From(text, p), g2 |-> <<>>]
        ELSE IF d > 1 /\ d = Len(text) + 1
        THEN [matched |-> TRUE, g1 |-> text, g2 |-> <<>>]
        ELSE IF d > 1 /\ d = Len(text) /\ (text[d] \in LowerSet \/ text[d] \in UpperSet)
        THEN [matched |-> TRUE, g1 |-> SubSeq(text, 1, d - 1), g2 |-> <<text[d]>>]
        ELSE [matched |-> FALSE, g1 |-> <<>>, g2 |-> <<>>]

\* the first department the upper-cased text starts with, 0 when none
DepartmentOf(upper) ==
    LET hits == {k \in 1..Len(DEPARTMENTS) : startsWith(upper, DEPARTMENTS[k])}
    IN  IF hits = {} THEN 0 ELSE SetMin(hits)

\* remainder.replace(/^[\/,;:\-]+\s*/, '').trim()
StripSeparators(remainder) ==
    LET seps == {"/", ",", ";", ":", "-"}
        non == {i \in 1..Len(remainder) : remainder[i] \notin seps}
        p == IF non = {} THEN Len(remainder) + 1 ELSE SetMin(non)
    IN  IF p = 1 THEN trim(remainder)
        ELSE trim(From(remainder, SkipSpaces(remainder, p)))

\* w.charAt(0).toUpperCase() + w.slice(1).toLowerCase()
TitleWord(w) == IF w = <<>> THEN <<>> ELSE ToUpperChar(w[1]) \o toLowerCase(Tail(w))

\* text.split(/\s+/).map(...).join(' ')
TitleCase(text) ==
    LET words == SplitWords(text)
    IN  Join([k \in 1..Len(words) |-> TitleWord(words[k])], Str(" "))

\* the result for a text that is no aisle number: a department, or the
\* title-cased text
NamedAisle(text, dept) ==
    IF dept # 0
    THEN [aisle |-> DEPT_DISPLAY[dept],
          bay |-> StripSeparators(trim(From(text, Len(DEPARTMENTS[dept]) + 1)))]
    ELSE [aisle |-> TitleCase(text), bay |-> <<>>]

AisleOfMatch(text, numMatch) ==
    IF numMatch.matched
    THEN [aisle |-> Str("Aisle ") \o ParseIntText(numMatch.g1), bay |-> numMatch.g2]
    ELSE NamedAisle(text, DepartmentOf(toUpperCase(text)))

AisleOfText(text) == AisleOfMatch(text, NumMatch(text))

parseAisleText(raw) ==
    IF ~Truthy(raw) \/ trim(raw) = <<>> THEN UnknownAisle
    ELSE AisleOfText(StripAislePrefix(trim(raw)))

\* the decimal numeral of a number below 100
Decimal(n) ==
    LET d == Str("0123456789")
    IN  IF n < 10 THEN <<d[n + 1]>> ELSE <<d[(n \div 10) + 1], d[(n % 10) + 1]>>

DepartmentOrderFirst ==
    << Str("Produce"), Str("Bakery"), Str("Bread"), Str("Deli"), Str("Meat"),
       Str("Seafood"), Str("Backwall") >>

DepartmentOrderLast ==
    << Str("Dairy"), Str("International Cheese"), Str("Kosher"), Str("Frozen"),
       Str("Natural"), Str("Health & Beauty"), Str("Pharmacy"), Str("Floral"),
       Str("Grocery"), Str("Bulk"), Str("Customer Service") >>

\* AISLE_SORT_ORDER of lib/aisleData.js as the set of its <<name, rank>> pairs
AISLE_SORT_ORDER ==
    {<<DepartmentOrderFirst[k], k>> : k \in 1..7}
    \cup {<<Str("Aisle ") \o Decimal(k), 9 + k>> : k \in 1..20}
    \cup {<<DepartmentOrderLast[k], 29 + k>> : k \in 1..11}
    \cup {<<Str("Unknown"), 99>>}

\* AISLE_SORT_ORDER[a] ?? 98
DefaultRank == 98

SortRank(a) ==
    IF \E p \in AISLE_SORT_ORDER : p[1] = a
    THEN (CHOOSE p \in AISLE_SORT_ORDER : p[1] = a)[2]
    ELSE DefaultRank

\* ------------------------------------------------------------------------
\* shop.js: the cache, the lookup, the groups
\* ------------------------------------------------------------------------
\* a JavaScript object or Map with string keys is a function on its keys
EmptyMap == [k \in {} |-> k]

\* JavaScript null where a program reads an object: a function that no
\* object is equal to, since no key of an object is Null
NullObject == [k \in {Null} |-> Null]

\* map.set(k, v)
Put(m, k, v) == [x \in DOMAIN m \cup {k} |-> IF x = k THEN v ELSE m[x]]

\* the properties every object inherits from Object.prototype
ObjectPrototypeKeys ==
    { Str("constructor"), Str("__proto__"), Str("hasOwnProperty"), Str("isPrototypeOf"),
      Str("propertyIsEnumerable"), Str("toLocaleString"), Str("toString"),
      Str("valueOf"), Str("__defineGetter__"), Str("__defineSetter__"),
      Str("__lookupGetter__"), Str("__lookupSetter__") }

\* obj[k] = v for an object or null v: an own property is written or
\* created, but "__proto__" that is no own property is the setter of
\* Object.prototype, which replaces the prototype and creates no property
AssignProperty(obj, k, v) ==
    IF k = Str("__proto__") /\ k \notin DOMAIN obj THEN obj ELSE Put(obj, k, v)

\* the bytes JSON.stringify and the encoding 'utf-8' make of the code point
\* cp of a string: an escape of two or six bytes (a surrogate that has no
\* partner is written as \udxxx), or the bytes of UTF-8
JsonBytes(cp) ==
    IF cp \in {8, 9, 10, 12, 13, 34, 92} THEN 2
    ELSE IF cp < 32 THEN 6
    ELSE IF cp < 128 THEN 1
    ELSE IF cp < 2048 THEN 2
    ELSE IF cp \in 55296..57343 THEN 6
    ELSE IF cp < 65536 THEN 3
    ELSE 4

RECURSIVE SumOfSeq(_)
SumOfSeq(ns) == IF ns = <<>> THEN 0 ELSE Head(ns) + SumOfSeq(Tail(ns))

RECURSIVE SumOfMap(_)
SumOfMap(f) ==
    IF DOMAIN f = {} THEN 0
    ELSE LET k == CHOOSE x \in DOMAIN f : TRUE
         IN  f[k] + SumOfMap([x \in DOMAIN f \ {k} |-> f[x]])

\* the code units of ASCII that JSON.stringify does not escape, one byte each
PlainUnits ==
    ({Latin1Low[i] : i \in 1..Len(Latin1Low)} \cup {Latin1Mid[i] : i \in 1..Len(Latin1Mid)})
    \ {"\"", "\\"}

JsonBytesOfAll(cps) == SumOfSeq([i \in 1..Len(cps) |-> JsonBytes(cps[i])])

\* the length in bytes of JSON.stringify(s) for a string s: the quotes, and
\* the bytes of its code points (within Latin-1 a code unit that is not
\* plain has two)
JsonStringLength(s) ==
    IF \A i \in 1..Len(s) : Len(s[i]) = 1
    THEN 2 + Len(s) + Cardinality({i \in 1..Len(s) : s[i] \notin PlainUnits})
    ELSE 2 + JsonBytesOfAll(CodePoints(s))

\* the length in bytes of JSON.stringify(obj, null, 2) for an object at
\* nesting depth with members of the lengths given (a member is its key,
\* ": " and its value): "{}", or the braces, a line with its indentation for
\* every member, the commas, and the line of the closing brace
JsonObjectLength(members, depth) ==
    IF DOMAIN members = {} THEN 2
    ELSE LET n == Cardinality(DOMAIN members)
         IN  1 + n * (1 + 2 * (depth + 1)) + SumOfMap(members) + (n - 1) + 1 + 2 * depth + 1

\* a location {aisle, bay} in a bucket
JsonLocationLength(v) ==
    JsonObjectLength(<<7 + 2 + JsonStringLength(v.aisle), 5 + 2 + JsonStringLength(v.bay)>>, 2)

\* a bucket: null, or the object of its entries
JsonBucketLength(b) ==
    IF b = NullObject THEN 4
    ELSE JsonObjectLength([k \in DOMAIN b |-> JsonStringLength(k) + 2 + JsonLocationLength(b[k])], 1)

\* JSON.stringify(allCacheData, null, 2)
JsonLength(data) ==
    IF data = NullObject THEN 4
    ELSE JsonObjectLength([k \in DOMAIN data |-> JsonStringLength(k) + 2 + JsonBucketLength(data[k])], 0)

\* cache.json: its length in bytes, and the value it holds (an object, or
\* null) when its bytes are JSON.  NoFile is the file that is absent or
\* empty, NoJson(n) one of n bytes that JSON.parse rejects
NoJson(n) == [readable |-> FALSE, data |-> EmptyMap, length |-> n]

NoFile == NoJson(0)

FileOf(data) == [readable |-> TRUE, data |-> data, length |-> JsonLength(data)]

\* cache.json after a process has written JSON.stringify(data, null, 2) at
\* offset 0 of the file it opened: the bytes another process wrote
\* behind the end of this text since the open stay, and the file is no JSON
WrittenAs(file, data, length) ==
    IF length >= file.length
    THEN [readable |-> TRUE, data |-> data, length |-> length]
    ELSE NoJson(file.length)

\* allCacheData after the try/catch of loadCache
LoadedData(file) == IF file.readable THEN file.data ELSE EmptyMap

\* allCacheData[STORE_ID] || {}, and the entries Object.entries lists of it:
\* a bucket that is null is replaced by {}, and a property that is not an
\* own one is inherited from Object.prototype and has no entries
StoreData(data, storeId) ==
    IF storeId \in DOMAIN data /\ data[storeId] # NullObject THEN data[storeId]
    ELSE EmptyMap

\* saveCache that persists every entry of the cache
PersistedEntries_KeepUnknown(c) == c

\* the object saveCache builds from {}: obj[k] = v for the entries with
\* v.aisle !== 'Unknown'; the key "__proto__" creates no property
PersistedEntries(c) ==
    [k \in {x \in DOMAIN c : c[x].aisle # Str("Unknown") /\ x # Str("__proto__")} |-> c[k]]

\* allCacheData after allCacheData[STORE_ID] = obj
SavedData(data, storeId, c) == AssignProperty(data, storeId, PersistedEntries(c))

\* itemName.toLowerCase().trim()
CacheKey(itemName) == trim(toLowerCase(itemName))

\* the entries of all blocks: expanded after the loop of parseShoppingList
ExpandBlocks(bs) == Flatten([k \in 1..Len(bs) |-> expandLine(bs[k])])

\* parseShoppingList(text), and whether it raises
parseShoppingList(text) == MapParseItem(ExpandBlocks(splitIntoBlocks(text)))

MapThrows(entries) == \E i \in 1..Len(entries) : ParseItemThrows(entries[i])

ParseShoppingListThrows(text) == MapThrows(ExpandBlocks(splitIntoBlocks(text)))

\* parsed.filter(p => p.name && !p.directive); aisle and bay not set yet
FilterItems(records) ==
    LET kept == SelectSeq(records, LAMBDA p : Truthy(p.name) /\ ~Truthy(p.directive))
    IN  [i \in 1..Len(kept) |->
            [raw |-> kept[i].raw, name |-> kept[i].name, qty |-> kept[i].qty,
             notes |-> kept[i].notes, lookupTerm |-> kept[i].lookupTerm,
             category |-> kept[i].category, section |-> kept[i].section,
             directive |-> kept[i].directive, aisle |-> Null, bay |-> Null]]

\* item.aisle = loc.aisle; item.bay = loc.bay for the i-th item
Located(list, i, loc) ==
    [list EXCEPT ![i] = [@ EXCEPT !.aisle = loc.aisle, !.bay = loc.bay]]

\* item.aisle || 'Unknown'
GroupKey(item) == IF Truthy(item.aisle) THEN item.aisle ELSE Str("Unknown")

\* groups[key] is an inherited property of the empty object, and push is
\* no function of it
GroupThrows(list) == \E i \in 1..Len(list) : GroupKey(list[i]) \in ObjectPrototypeKeys

\* a canonical array index: the numeral, without a leading zero, of an
\* integer below 2^32 - 1
IsArrayIndex(key) ==
    /\ key # <<>>
    /\ \A i \in 1..Len(key) : IsDigit(key[i])
    /\ key[1] # "0" \/ Len(key) = 1
    /\ Less([i \in 1..Len(key) |-> DigitValue(key[i])],
            [i \in 1..10 |-> DigitValue(Str("4294967295")[i])])

\* a < b for two array indices
IndexLess(a, b) ==
    Less([i \in 1..Len(a) |-> DigitValue(a[i])], [i \in 1..Len(b) |-> DigitValue(b[i])])

\* the array indices among the keys, in ascending order
SortedIndices(created, idx) ==
    [i \in 1..Cardinality(idx) |->
        created[CHOOSE k \in idx :
                    Cardinality({j \in idx : IndexLess(created[j], created[k])}) = i - 1]]

\* the order in which an object enumerates its own keys, from the order in
\* which they were created: the array indices in ascending order, then the
\* other keys as created
OwnKeys(created) ==
    SortedIndices(created, {k \in 1..Len(created) : IsArrayIndex(created[k])})
    \o SelectSeq(created, LAMBDA a : ~IsArrayIndex(a))

\* the keys of groups in the order the grouping loop creates them
RECURSIVE CreatedKeys(_, _)
CreatedKeys(list, seen) ==
    IF list = <<>> THEN <<>>
    ELSE IF GroupKey(Head(list)) \in seen THEN CreatedKeys(Tail(list), seen)
    ELSE <<GroupKey(Head(list))>>
         \o CreatedKeys(Tail(list), seen \cup {GroupKey(Head(list))})

\* the object groups: its keys in the order Object.keys lists them, each
\* with its items in list order
GroupsOf(list, keys) ==
    [k \in 1..Len(keys) |->
        [aisle |-> keys[k],
         items |-> SelectSeq(list, LAMBDA it : GroupKey(it) = keys[k])]]

GroupItems(list) == GroupsOf(list, OwnKeys(CreatedKeys(list, {})))

\* a key put into a sorted sequence of later keys: before the first key
\* whose rank is not below its own
InsertByRank(a, sorted) ==
    LET later == {k \in 1..Len(sorted) : SortRank(sorted[k]) >= SortRank(a)}
        p == IF later = {} THEN Len(sorted) + 1 ELSE SetMin(later)
    IN  SubSeq(sorted, 1, p - 1) \o <<a>> \o SubSeq(sorted, p, Len(sorted))

\* SortKeys without the ranks: the keys in the order they were created
SortKeys_CreationOrder(keys) == keys

\* Object.keys(groups).sort((a, b) => sa - sb), a stable sort
RECURSIVE SortKeys(_)
SortKeys(keys) ==
    IF keys = <<>> THEN <<>> ELSE InsertByRank(Head(keys), SortKeys(Tail(keys)))

\* the group of a key
GroupOf(gs, a) == gs[CHOOSE k \in 1..Len(gs) : gs[k].aisle = a]

\* the sections of the markdown: per aisle of sortedAisles its heading and
\* its items
SectionsOf(gs, sorted) ==
    [k \in 1..Len(sorted) |-> [aisle |-> sorted[k], items |-> GroupOf(gs, sorted[k]).items]]

\* ------------------------------------------------------------------------
\* Explored inputs
\* ------------------------------------------------------------------------
\* the sequences over S of length 1..n
RECURSIVE SeqsUpTo(_, _)
SeqsUpTo(S, n) ==
    IF n = 0 THEN {}
    ELSE {<<x>> : x \in S} \cup SeqsUpTo(S, n - 1)
         \cup {<<x>> \o t : x \in S, t \in SeqsUpTo(S, n - 1)}

Segments ==
    { Str("milk"), Str("Bread x2"), Str("surprise us"), Str("Mac and Cheese"),
      Str("apples and pears"), Str("constructor"), Str("Olive  Oil\tcans"),
      Str("(ripe)"), Str("yellow or white potatoes"), Str("(ripe"),
      Str("dz eggs"), Str("your choice."), Str("a and and b"), Str(""),
      Str("green\rbeans x2"), <<"U+2102">> \o Str("ola"),
      Str("smo") \o <<"U+212A">> \o Str("ed ÉCLAIR  au L")
          \o <<"U+0100">> \o Str("it") }

PrefixedSegments ==
    { Str("milk"), Str("Bread x2"), Str("surprise us"), Str("apples and pears") }

Prefixes ==
    { Str("Fruits: "), Str("Cold Cuts (sliced): "), Str("1 bag each: "),
      Str("surprise us: "),
      Str("2 jars each: "), Str("Snacks: 3 boxes each: "),
      Str("Pillsbury tubes: "), Str("Aisle 3: "), Str("Freezer section: ") }

DocLines ==
    { Str(""), Str("Aisle 3:"), Str("Frozen section (cold)"),
      Str("last aisle: OJ, your choice"), Str("milk"), Str("\teggs and Bread ") }

Inputs ==
    {Join(segs, Str(", ")) : segs \in SeqsUpTo(Segments, MaxSegs)}
    \cup {pre \o Join(segs, Str(", ")) :
             pre \in Prefixes, segs \in SeqsUpTo(PrefixedSegments, MaxSegs)}
    \cup {Join(ls, Str("\n")) : ls \in SeqsUpTo(DocLines, MaxLines)}

\* ------------------------------------------------------------------------
\* State machine: one call of parseShoppingList(text)
\* ------------------------------------------------------------------------
VARIABLES text, pc, blocks, next, expanded, parsed,
          cacheFile, step, STORE_ID, allCacheData, cache, items, index, apiCalls,
          groups, sortedAisles, sections, fileAtStart

Runs == 1..MaxRuns

\* the state of shop.js: cache.json, and for every run the statement it is
\* at, its store, the module variables allCacheData and cache, the locals
\* of main, the terms of the searches sent to the API, and cache.json as
\* loadCache found it
shopVars == <<cacheFile, step, STORE_ID, allCacheData, cache, items, index, apiCalls,
              groups, sortedAisles, sections, fileAtStart>>

vars == <<text, pc, blocks, next, expanded, parsed, shopVars>>

\* no run of shop.js has started
NoRuns ==
    /\ step = [r \in Runs |-> "idle"]
    /\ STORE_ID = [r \in Runs |-> DEFAULT_STORE_ID]
    /\ allCacheData = [r \in Runs |-> EmptyMap]
    /\ cache = [r \in Runs |-> EmptyMap]
    /\ items = [r \in Runs |-> <<>>]
    /\ index = [r \in Runs |-> 1]
    /\ apiCalls = [r \in Runs |-> <<>>]
    /\ groups = [r \in Runs |-> <<>>]
    /\ sortedAisles = [r \in Runs |-> <<>>]
    /\ sections = [r \in Runs |-> <<>>]
    /\ fileAtStart = [r \in Runs |-> NoFile]

\* parseShoppingList called on its own: shop.js is not running
ShopIdle ==
    /\ cacheFile = NoFile
    /\ NoRuns

Init ==
    /\ text \in Inputs
    /\ pc = "split"
    /\ blocks = <<>>
    /\ next = 1
    /\ expanded = <<>>
    /\ parsed = <<>>
    /\ ShopIdle

\* const blocks = splitIntoBlocks(text)
CallSplitIntoBlocks ==
    /\ pc = "split"
    /\ blocks' = splitIntoBlocks(text)
    /\ pc' = "expand"
    /\ UNCHANGED <<text, next, expanded, parsed>>
    /\ UNCHANGED shopVars

\* CallExpandLine with the category of the entry pushed last kept for the
\* entries of a line that has none
CallExpandLine_CarryCategory ==
    /\ pc = "expand"
    /\ next <= Len(blocks)
    /\ expanded' =
          expanded \o
          [i \in 1..Len(expandLine(blocks[next])) |->
              IF /\ ~IsDirectiveEntry(expandLine(blocks[next])[i])
                 /\ expandLine(blocks[next])[i].category = Null
                 /\ expanded # <<>>
                 /\ ~IsDirectiveEntry(expanded[Len(expanded)])
              THEN [expandLine(blocks[next])[i]
                        EXCEPT !.category = expanded[Len(expanded)].category]
              ELSE expandLine(blocks[next])[i]]
    /\ next' = next + 1
    /\ UNCHANGED <<text, pc, blocks, parsed>>
    /\ UNCHANGED shopVars

\* one iteration of the loop: expanded.push(...expandLine(block))
CallExpandLine ==
    /\ pc = "expand"
    /\ next <= Len(blocks)
    /\ expanded' = expanded \o expandLine(blocks[next])
    /\ next' = next + 1
    /\ UNCHANGED <<text, pc, blocks, parsed>>
    /\ UNCHANGED shopVars

\* const parsed = expanded.map(parseItem); return parsed
ReturnParsed ==
    /\ pc = "expand"
    /\ next > Len(blocks)
    /\ \A i \in 1..Len(expanded) : ~ParseItemThrows(expanded[i])
    /\ parsed' = MapParseItem(expanded)
    /\ pc' = "done"
    /\ UNCHANGED <<text, blocks, next, expanded>>
    /\ UNCHANGED shopVars

\* expanded.map(parseItem) raises the TypeError of a parseItem call
ThrowTypeError ==
    /\ pc = "expand"
    /\ next > Len(blocks)
    /\ \E i \in 1..Len(expanded) : ParseItemThrows(expanded[i])
    /\ pc' = "threw"
    /\ UNCHANGED <<text, blocks, next, expanded, parsed>>
    /\ UNCHANGED shopVars

Next == CallSplitIntoBlocks \/ CallExpandLine \/ ReturnParsed \/ ThrowTypeError

Spec == Init /\ [][Next]_vars

\* ------------------------------------------------------------------------
\* shop.js: runs of the command line tool, in sequence or overlapping
\* ------------------------------------------------------------------------
\* the "--store=" argument of a run (Null: none given)
StoreArgs == { Null, Str("--store=123"), Str("--store=__proto__") }

\* the aisle texts productLocation.aisle of the API
AisleTexts == { Str("12B"), Str("front end"), Str("unknown") }

\* the grocery lists of the runs
ShopLists == { Str("milk, eggs\nsurprise us"), Str("milk, milk"), Str("constructor") }

\* cache.json as committed or edited by hand: store 592 with an entry set
\* to Unknown, one whose aisle is an array index and one under the key
\* "__proto__"; store 123 with null for its bucket; and a bucket
\* "__proto__" with an aisle that is a property of every object
CommittedCache ==
    Put(Put(Put(EmptyMap,
                Str("592"), Put(Put(Put(EmptyMap,
                                        Str("milk"), UnknownAisle),
                                    Str("eggs"), [aisle |-> Str("12"), bay |-> Str("PROMO")]),
                                Str("__proto__"), [aisle |-> Str("Dairy"), bay |-> <<>>])),
            Str("123"), NullObject),
        Str("__proto__"), Put(EmptyMap, Str("milk"), [aisle |-> Str("constructor"), bay |-> <<>>]))

\* cache.json before the first run: absent, holding null, or as committed
InitialFiles == { NoFile, FileOf(NullObject), FileOf(CommittedCache) }

InitShop ==
    /\ text = <<>>
    /\ pc = "idle"
    /\ blocks = <<>>
    /\ next = 1
    /\ expanded = <<>>
    /\ parsed = <<>>
    /\ cacheFile \in InitialFiles
    /\ NoRuns

parserVars == <<text, pc, blocks, next, expanded, parsed>>

\* the runs are numbered in the order in which they start
CanStart(r) == step[r] = "idle" /\ (IF r = 1 THEN TRUE ELSE step[r - 1] # "idle")

\* the module is loaded: STORE_ID from the arguments, allCacheData from
\* cache.json, cache from the bucket of the store
LoadCache(r, storeId, data) ==
    /\ STORE_ID' = [STORE_ID EXCEPT ![r] = storeId]
    /\ allCacheData' = [allCacheData EXCEPT ![r] = data]
    /\ cache' = [cache EXCEPT ![r] = StoreData(data, storeId)]
    /\ fileAtStart' = [fileAtStart EXCEPT ![r] = cacheFile]

\* a process starts and runs to the call of main
CallLoadCache(r) ==
    /\ CanStart(r)
    /\ LoadedData(cacheFile) # NullObject
    /\ \E arg \in StoreArgs : LoadCache(r, StoreIdOf(arg), LoadedData(cacheFile))
    /\ step' = [step EXCEPT ![r] = "main"]
    /\ UNCHANGED <<parserVars, cacheFile, items, index, apiCalls, groups, sortedAisles,
                   sections>>

\* a process starts and cache.json holds null: allCacheData[STORE_ID] in
\* loadCache raises a TypeError that nothing catches
LoadCacheThrows(r) ==
    /\ CanStart(r)
    /\ LoadedData(cacheFile) = NullObject
    /\ \E arg \in StoreArgs : STORE_ID' = [STORE_ID EXCEPT ![r] = StoreIdOf(arg)]
    /\ allCacheData' = [allCacheData EXCEPT ![r] = NullObject]
    /\ fileAtStart' = [fileAtStart EXCEPT ![r] = cacheFile]
    /\ step' = [step EXCEPT ![r] = "exit1"]
    /\ UNCHANGED <<parserVars, cacheFile, cache, items, index, apiCalls, groups,
                   sortedAisles, sections>>

\* main without a list argument, or with a path that does not exist:
\* process.exit(1)
ExitWithoutList(r) ==
    /\ step[r] = "main"
    /\ step' = [step EXCEPT ![r] = "exit1"]
    /\ UNCHANGED <<parserVars, cacheFile, STORE_ID, allCacheData, cache, items, index,
                   apiCalls, groups, sortedAisles, sections, fileAtStart>>

\* parseShoppingList(rawText) raises: main().catch writes the error,
\* process.exit(1)
FatalError(r) ==
    /\ step[r] = "main"
    /\ \E rawText \in ShopLists : ParseShoppingListThrows(rawText)
    /\ step' = [step EXCEPT ![r] = "exit1"]
    /\ UNCHANGED <<parserVars, cacheFile, STORE_ID, allCacheData, cache, items, index,
                   apiCalls, groups, sortedAisles, sections, fileAtStart>>

\* main reads the list, parses it and filters the items, up to the loop of
\* the lookups
ReadList(r) ==
    /\ step[r] = "main"
    /\ \E rawText \in ShopLists :
          /\ ~ParseShoppingListThrows(rawText)
          /\ items' = [items EXCEPT ![r] = FilterItems(parseShoppingList(rawText))]
    /\ index' = [index EXCEPT ![r] = 1]
    /\ step' = [step EXCEPT ![r] = "lookup"]
    /\ UNCHANGED <<parserVars, cacheFile, STORE_ID, allCacheData, cache, apiCalls,
                   groups, sortedAisles, sections, fileAtStart>>

\* lookupItem returns loc: item.aisle = loc.aisle, item.bay = loc.bay, and
\* the loop goes on with the next item
ReturnLocation(r, loc) ==
    /\ items' = [items EXCEPT ![r] = Located(items[r], index[r], loc)]
    /\ index' = [index EXCEPT ![r] = index[r] + 1]
    /\ step' = [step EXCEPT ![r] = "lookup"]

\* cache.set(cacheKey, result); return result
CacheAndReturn(r, cacheKey, result) ==
    /\ cache' = [cache EXCEPT ![r] = Put(cache[r], cacheKey, result)]
    /\ ReturnLocation(r, result)

Looking(r) == step[r] = "lookup" /\ index[r] <= Len(items[r])

\* lookupItem of a term that the cache has: return cached
ReturnCached(r) ==
    /\ Looking(r)
    /\ CacheKey(items[r][index[r]].lookupTerm) \in DOMAIN cache[r]
    /\ ReturnLocation(r, cache[r][CacheKey(items[r][index[r]].lookupTerm)])
    /\ UNCHANGED <<parserVars, cacheFile, STORE_ID, allCacheData, cache, apiCalls,
                   groups, sortedAisles, sections, fileAtStart>>

\* lookupItem of a term that the cache has not: the search request is sent
\* and lookupItem waits for the answer
SendSearch(r) ==
    /\ Looking(r)
    /\ CacheKey(items[r][index[r]].lookupTerm) \notin DOMAIN cache[r]
    /\ apiCalls' = [apiCalls EXCEPT ![r] = Append(@, items[r][index[r]].lookupTerm)]
    /\ step' = [step EXCEPT ![r] = "search"]
    /\ UNCHANGED <<parserVars, cacheFile, STORE_ID, allCacheData, cache, items, index,
                   groups, sortedAisles, sections, fileAtStart>>

\* a request fails (no answer, a status other than 200, no JSON): the
\* catch block returns Unknown and the cache is left alone
RequestFails(r) ==
    /\ step[r] \in {"search", "detail"}
    /\ ReturnLocation(r, UnknownAisle)
    /\ UNCHANGED <<parserVars, cacheFile, STORE_ID, allCacheData, cache, apiCalls,
                   groups, sortedAisles, sections, fileAtStart>>

\* the search has no result: Unknown is cached and returned
SearchFindsNothing(r) ==
    /\ step[r] = "search"
    /\ CacheAndReturn(r, CacheKey(items[r][index[r]].lookupTerm), UnknownAisle)
    /\ UNCHANGED <<parserVars, cacheFile, STORE_ID, allCacheData, apiCalls, groups,
                   sortedAisles, sections, fileAtStart>>

\* the search has a product: the request for its details is sent and
\* lookupItem waits for the answer
SendDetail(r) ==
    /\ step[r] = "search"
    /\ step' = [step EXCEPT ![r] = "detail"]
    /\ UNCHANGED <<parserVars, cacheFile, STORE_ID, allCacheData, cache, items, index,
                   apiCalls, groups, sortedAisles, sections, fileAtStart>>

\* the details have no productLocation, or one without aisle: Unknown is
\* cached and returned
DetailWithoutLocation(r) ==
    /\ step[r] = "detail"
    /\ CacheAndReturn(r, CacheKey(items[r][index[r]].lookupTerm), UnknownAisle)
    /\ UNCHANGED <<parserVars, cacheFile, STORE_ID, allCacheData, apiCalls, groups,
                   sortedAisles, sections, fileAtStart>>

\* the details have the aisle text raw: parseAisleText(raw) is cached and
\* returned
DetailWithLocation(r) ==
    /\ step[r] = "detail"
    /\ \E raw \in AisleTexts :
          CacheAndReturn(r, CacheKey(items[r][index[r]].lookupTerm), parseAisleText(raw))
    /\ UNCHANGED <<parserVars, cacheFile, STORE_ID, allCacheData, apiCalls, groups,
                   sortedAisles, sections, fileAtStart>>

\* saveCache() after the loop of the lookups, up to the moment
\* fs.writeFileSync has opened cache.json: allCacheData[STORE_ID] = obj, and
\* the open with the flag 'w' creates the file or cuts it to no bytes
CallSaveCache(r) ==
    /\ step[r] = "lookup"
    /\ index[r] > Len(items[r])
    /\ allCacheData' = [allCacheData EXCEPT ![r] =
                           SavedData(allCacheData[r], STORE_ID[r], cache[r])]
    /\ cacheFile' = NoFile
    /\ step' = [step EXCEPT ![r] = "write"]
    /\ UNCHANGED <<parserVars, STORE_ID, cache, items, index, apiCalls, groups,
                   sortedAisles, sections, fileAtStart>>

\* fs.writeFileSync writes the text into the file it opened, and saveCache
\* returns; main runs on to its end without another await
WriteCacheFile(r) ==
    \E length \in {JsonLength(allCacheData[r])} :
        cacheFile' = WrittenAs(cacheFile, allCacheData[r], length)

\* the text is written, and the grouping loop raises a TypeError:
\* main().catch, process.exit(1)
GroupingFails(r) ==
    /\ step[r] = "write"
    /\ GroupThrows(items[r])
    /\ WriteCacheFile(r)
    /\ step' = [step EXCEPT ![r] = "failed"]
    /\ UNCHANGED <<parserVars, STORE_ID, allCacheData, cache, items, index,
                   apiCalls, groups, sortedAisles, sections, fileAtStart>>

\* what the grouping, the sort and the loop over sortedAisles leave
RenderStep(r, gs, sorted) ==
    /\ groups' = [groups EXCEPT ![r] = gs]
    /\ sortedAisles' = [sortedAisles EXCEPT ![r] = sorted]
    /\ sections' = [sections EXCEPT ![r] = SectionsOf(gs, sorted)]

SortAndRender(r, gs) == RenderStep(r, gs, SortKeys([k \in 1..Len(gs) |-> gs[k].aisle]))

\* the text is written, and steps 3 and 4 of main: group, sort, build and
\* write the markdown
GroupSortRender(r) ==
    /\ step[r] = "write"
    /\ ~GroupThrows(items[r])
    /\ WriteCacheFile(r)
    /\ SortAndRender(r, GroupItems(items[r]))
    /\ step' = [step EXCEPT ![r] = "written"]
    /\ UNCHANGED <<parserVars, STORE_ID, allCacheData, cache, items, index,
                   apiCalls, fileAtStart>>

NextShop ==
    \E r \in Runs :
        \/ CallLoadCache(r)
        \/ LoadCacheThrows(r)
        \/ ExitWithoutList(r)
        \/ FatalError(r)
        \/ ReadList(r)
        \/ ReturnCached(r)
        \/ SendSearch(r)
        \/ RequestFails(r)
        \/ SearchFindsNothing(r)
        \/ SendDetail(r)
        \/ DetailWithoutLocation(r)
        \/ DetailWithLocation(r)
        \/ CallSaveCache(r)
        \/ GroupingFails(r)
        \/ GroupSortRender(r)

SpecShop == InitShop /\ [][NextShop]_vars

\* ------------------------------------------------------------------------
\* Properties
\* ------------------------------------------------------------------------
Indices(n) == [i \in 1..n |-> i]

\* the number of entries pushed by the blocks before the k-th
Offset(k) == Len(Flatten([j \in 1..(k - 1) |-> expandLine(blocks[j])]))

\* the entries of expanded that the k-th block pushed (k < next)
Slice(k) ==
    LET offset == Offset(k)
    IN  SubSeq(expanded, offset + 1, offset + Len(expandLine(blocks[k])))

\* the blocks the loop has taken so far
Taken == IF pc = "split" THEN {} ELSE 1..(next - 1)

\* the comma-separated segments of the text of an items block, trimmed
SegmentsOf(block) ==
    SplitCommas(ExtractSharedQty(ExtractCategory(block.text).text).text)

ItemEntries(entries) == SelectSeq(entries, LAMBDA e : ~IsDirectiveEntry(e))

DirectiveEntries(entries) == SelectSeq(entries, LAMBDA e : IsDirectiveEntry(e))

\* C1: every returned record has exactly one of name and directive: name
\* is null exactly when directive is set, and so is lookupTerm.
NameDirectiveExclusive ==
    pc = "done" =>
        \A i \in 1..Len(parsed) :
            /\ (parsed[i].name # Null) # (parsed[i].directive # Null)
            /\ parsed[i].directive # Null => parsed[i].directive # <<>>
            /\ (parsed[i].name = Null) <=> (parsed[i].directive # Null)
            /\ (parsed[i].lookupTerm = Null) <=> (parsed[i].directive # Null)

NameDirectiveWitness ==
    /\ pc = "done"
    /\ \E i \in 1..Len(parsed) : parsed[i].directive # Null /\ parsed[i].name = Null
    /\ \E i \in 1..Len(parsed) : parsed[i].directive = Null /\ parsed[i].name # Null

\* <<lo, hi>>: the code points with the property Uppercase
UppercaseRanges ==
    <<<<65, 90>>, <<192, 214>>, <<216, 222>>, <<256, 256>>, <<258, 258>>, <<260, 260>>,
      <<262, 262>>, <<264, 264>>, <<266, 266>>, <<268, 268>>, <<270, 270>>, <<272, 272>>,
      <<274, 274>>, <<276, 276>>, <<278, 278>>, <<280, 280>>, <<282, 282>>, <<284, 284>>,
      <<286, 286>>, <<288, 288>>, <<290, 290>>, <<292, 292>>, <<294, 294>>, <<296, 296>>,
      <<298, 298>>, <<300, 300>>, <<302, 302>>, <<304, 304>>, <<306, 306>>, <<308, 308>>,
      <<310, 310>>, <<313, 313>>, <<315, 315>>, <<317, 317>>, <<319, 319>>, <<321, 321>>,
      <<323, 323>>, <<325, 325>>, <<327, 327>>, <<330, 330>>, <<332, 332>>, <<334, 334>>,
      <<336, 336>>, <<338, 338>>, <<340, 340>>, <<342, 342>>, <<344, 344>>, <<346, 346>>,
      <<348, 348>>, <<350, 350>>, <<352, 352>>, <<354, 354>>, <<356, 356>>, <<358, 358>>,
      <<360, 360>>, <<362, 362>>, <<364, 364>>, <<366, 366>>, <<368, 368>>, <<370, 370>>,
      <<372, 372>>, <<374, 374>>, <<376, 377>>, <<379, 379>>, <<381, 381>>, <<385, 386>>,
      <<388, 388>>, <<390, 391>>, <<393, 395>>, <<398, 401>>, <<403, 404>>, <<406, 408>>,
      <<412, 413>>, <<415, 416>>, <<418, 418>>, <<420, 420>>, <<422, 423>>, <<425, 425>>,
      <<428, 428>>, <<430, 431>>, <<433, 435>>, <<437, 437>>, <<439, 440>>, <<444, 444>>,
      <<452, 452>>, <<455, 455>>, <<458, 458>>, <<461, 461>>, <<463, 463>>, <<465, 465>>,
      <<467, 467>>, <<469, 469>>, <<471, 471>>, <<473, 473>>, <<475, 475>>, <<478, 478>>,
      <<480, 480>>, <<482, 482>>, <<484, 484>>, <<486, 486>>, <<488, 488>>, <<490, 490>>,
      <<492, 492>>, <<494, 494>>, <<497, 497>>, <<500, 500>>, <<502, 504>>, <<506, 506>>,
      <<508, 508>>, <<510, 510>>, <<512, 512>>, <<514, 514>>, <<516, 516>>, <<518, 518>>,
      <<520, 520>>, <<522, 522>>, <<524, 524>>, <<526, 526>>, <<528, 528>>, <<530, 530>>,
      <<532, 532>>, <<534, 534>>, <<536, 536>>, <<538, 538>>, <<540, 540>>, <<542, 542>>,
      <<544, 544>>, <<546, 546>>, <<548, 548>>, <<550, 550>>, <<552, 552>>, <<554, 554>>,
      <<556, 556>>, <<558, 558>>, <<560, 560>>, <<562, 562>>, <<570, 571>>, <<573, 574>>,
      <<577, 577>>, <<579, 582>>, <<584, 584>>, <<586, 586>>, <<588, 588>>, <<590, 590>>,
      <<880, 880>>, <<882, 882>>, <<886, 886>>, <<895, 895>>, <<902, 902>>, <<904, 906>>,
      <<908, 908>>, <<910, 911>>, <<913, 929>>, <<931, 939>>, <<975, 975>>, <<978, 980>>,
      <<984, 984>>, <<986, 986>>, <<988, 988>>, <<990, 990>>, <<992, 992>>, <<994, 994>>,
      <<996, 996>>, <<998, 998>>, <<1000, 1000>>, <<1002, 1002>>, <<1004, 1004>>, <<1006, 1006>>,
      <<1012, 1012>>, <<1015, 1015>>, <<1017, 1018>>, <<1021, 1071>>, <<1120, 1120>>, <<1122, 1122>>,
      <<1124, 1124>>, <<1126, 1126>>, <<1128, 1128>>, <<1130, 1130>>, <<1132, 1132>>, <<1134, 1134>>,
      <<1136, 1136>>, <<1138, 1138>>, <<1140, 1140>>, <<1142, 1142>>, <<1144, 1144>>, <<1146, 1146>>,
      <<1148, 1148>>, <<1150, 1150>>, <<1152, 1152>>, <<1162, 1162>>, <<1164, 1164>>, <<1166, 1166>>,
      <<1168, 1168>>, <<1170, 1170>>, <<1172, 1172>>, <<1174, 1174>>, <<1176, 1176>>, <<1178, 1178>>,
      <<1180, 1180>>, <<1182, 1182>>, <<1184, 1184>>, <<1186, 1186>>, <<1188, 1188>>, <<1190, 1190>>,
      <<1192, 1192>>, <<1194, 1194>>, <<1196, 1196>>, <<1198, 1198>>, <<1200, 1200>>, <<1202, 1202>>,
      <<1204, 1204>>, <<1206, 1206>>, <<1208, 1208>>, <<1210, 1210>>, <<1212, 1212>>, <<1214, 1214>>,
      <<1216, 1217>>, <<1219, 1219>>, <<1221, 1221>>, <<1223, 1223>>, <<1225, 1225>>, <<1227, 1227>>,
      <<1229, 1229>>, <<1232, 1232>>, <<1234, 1234>>, <<1236, 1236>>, <<1238, 1238>>, <<1240, 1240>>,
      <<1242, 1242>>, <<1244, 1244>>, <<1246, 1246>>, <<1248, 1248>>, <<1250, 1250>>, <<1252, 1252>>,
      <<1254, 1254>>, <<1256, 1256>>, <<1258, 1258>>, <<1260, 1260>>, <<1262, 1262>>, <<1264, 1264>>,
      <<1266, 1266>>, <<1268, 1268>>, <<1270, 1270>>, <<1272, 1272>>, <<1274, 1274>>, <<1276, 1276>>,
      <<1278, 1278>>, <<1280, 1280>>, <<1282, 1282>>, <<1284, 1284>>, <<1286, 1286>>, <<1288, 1288>>,
      <<1290, 1290>>, <<1292, 1292>>, <<1294, 1294>>, <<1296, 1296>>, <<1298, 1298>>, <<1300, 1300>>,
      <<1302, 1302>>, <<1304, 1304>>, <<1306, 1306>>, <<1308, 1308>>, <<1310, 1310>>, <<1312, 1312>>,
      <<1314, 1314>>, <<1316, 1316>>, <<1318, 1318>>, <<1320, 1320>>, <<1322, 1322>>, <<1324, 1324>>,
      <<1326, 1326>>, <<1329, 1366>>, <<4256, 4293>>, <<4295, 4295>>, <<4301, 4301>>, <<5024, 5109>>,
      <<7305, 7305>>, <<7312, 7354>>, <<7357, 7359>>, <<7680, 7680>>, <<7682, 7682>>, <<7684, 7684>>,
      <<7686, 7686>>, <<7688, 7688>>, <<7690, 7690>>, <<7692, 7692>>, <<7694, 7694>>, <<7696, 7696>>,
      <<7698, 7698>>, <<7700, 7700>>, <<7702, 7702>>, <<7704, 7704>>, <<7706, 7706>>, <<7708, 7708>>,
      <<7710, 7710>>, <<7712, 7712>>, <<7714, 7714>>, <<7716, 7716>>, <<7718, 7718>>, <<7720, 7720>>,
      <<7722, 7722>>, <<7724, 7724>>, <<7726, 7726>>, <<7728, 7728>>, <<7730, 7730>>, <<7732, 7732>>,
      <<7734, 7734>>, <<7736, 7736>>, <<7738, 7738>>, <<7740, 7740>>, <<7742, 7742>>, <<7744, 7744>>,
      <<7746, 7746>>, <<7748, 7748>>, <<7750, 7750>>, <<7752, 7752>>, <<7754, 7754>>, <<7756, 7756>>,
      <<7758, 7758>>, <<7760, 7760>>, <<7762, 7762>>, <<7764, 7764>>, <<7766, 7766>>, <<7768, 7768>>,
      <<7770, 7770>>, <<7772, 7772>>, <<7774, 7774>>, <<7776, 7776>>, <<7778, 7778>>, <<7780, 7780>>,
      <<7782, 7782>>, <<7784, 7784>>, <<7786, 7786>>, <<7788, 7788>>, <<7790, 7790>>, <<7792, 7792>>,
      <<7794, 7794>>, <<7796, 7796>>, <<7798, 7798>>, <<7800, 7800>>, <<7802, 7802>>, <<7804, 7804>>,
      <<7806, 7806>>, <<7808, 7808>>, <<7810, 7810>>, <<7812, 7812>>, <<7814, 7814>>, <<7816, 7816>>,
      <<7818, 7818>>, <<7820, 7820>>, <<7822, 7822>>, <<7824, 7824>>, <<7826, 7826>>, <<7828, 7828>>,
      <<7838, 7838>>, <<7840, 7840>>, <<7842, 7842>>, <<7844, 7844>>, <<7846, 7846>>, <<7848, 7848>>,
      <<7850, 7850>>, <<7852, 7852>>, <<7854, 7854>>, <<7856, 7856>>, <<7858, 7858>>, <<7860, 7860>>,
      <<7862, 7862>>, <<7864, 7864>>, <<7866, 7866>>, <<7868, 7868>>, <<7870, 7870>>, <<7872, 7872>>,
      <<7874, 7874>>, <<7876, 7876>>, <<7878, 7878>>, <<7880, 7880>>, <<7882, 7882>>, <<7884, 7884>>,
      <<7886, 7886>>, <<7888, 7888>>, <<7890, 7890>>, <<7892, 7892>>, <<7894, 7894>>, <<7896, 7896>>,
      <<7898, 7898>>, <<7900, 7900>>, <<7902, 7902>>, <<7904, 7904>>, <<7906, 7906>>, <<7908, 7908>>,
      <<7910, 7910>>, <<7912, 7912>>, <<7914, 7914>>, <<7916, 7916>>, <<7918, 7918>>, <<7920, 7920>>,
      <<7922, 7922>>, <<7924, 7924>>, <<7926, 7926>>, <<7928, 7928>>, <<7930, 7930>>, <<7932, 7932>>,
      <<7934, 7934>>, <<7944, 7951>>, <<7960, 7965>>, <<7976, 7983>>, <<7992, 7999>>, <<8008, 8013>>,
      <<8025, 8025>>, <<8027, 8027>>, <<8029, 8029>>, <<8031, 8031>>, <<8040, 8047>>, <<8120, 8123>>,
      <<8136, 8139>>, <<8152, 8155>>, <<8168, 8172>>, <<8184, 8187>>, <<8450, 8450>>, <<8455, 8455>>,
      <<8459, 8461>>, <<8464, 8466>>, <<8469, 8469>>, <<8473, 8477>>, <<8484, 8484>>, <<8486, 8486>>,
      <<8488, 8488>>, <<8490, 8493>>, <<8496, 8499>>, <<8510, 8511>>, <<8517, 8517>>, <<8544, 8559>>,
      <<8579, 8579>>, <<9398, 9423>>, <<11264, 11311>>, <<11360, 11360>>, <<11362, 11364>>, <<11367, 11367>>,
      <<11369, 11369>>, <<11371, 11371>>, <<11373, 11376>>, <<11378, 11378>>, <<11381, 11381>>, <<11390, 11392>>,
      <<11394, 11394>>, <<11396, 11396>>, <<11398, 11398>>, <<11400, 11400>>, <<11402, 11402>>, <<11404, 11404>>,
      <<11406, 11406>>, <<11408, 11408>>, <<11410, 11410>>, <<11412, 11412>>, <<11414, 11414>>, <<11416, 11416>>,
      <<11418, 11418>>, <<11420, 11420>>, <<11422, 11422>>, <<11424, 11424>>, <<11426, 11426>>, <<11428, 11428>>,
      <<11430, 11430>>, <<11432, 11432>>, <<11434, 11434>>, <<11436, 11436>>, <<11438, 11438>>, <<11440, 11440>>,
      <<11442, 11442>>, <<11444, 11444>>, <<11446, 11446>>, <<11448, 11448>>, <<11450, 11450>>, <<11452, 11452>>,
      <<11454, 11454>>, <<11456, 11456>>, <<11458, 11458>>, <<11460, 11460>>, <<11462, 11462>>, <<11464, 11464>>,
      <<11466, 11466>>, <<11468, 11468>>, <<11470, 11470>>, <<11472, 11472>>, <<11474, 11474>>, <<11476, 11476>>,
      <<11478, 11478>>, <<11480, 11480>>, <<11482, 11482>>, <<11484, 11484>>, <<11486, 11486>>, <<11488, 11488>>,
      <<11490, 11490>>, <<11499, 11499>>, <<11501, 11501>>, <<11506, 11506>>, <<42560, 42560>>, <<42562, 42562>>,
      <<42564, 42564>>, <<42566, 42566>>, <<42568, 42568>>, <<42570, 42570>>, <<42572, 42572>>, <<42574, 42574>>,
      <<42576, 42576>>, <<42578, 42578>>, <<42580, 42580>>, <<42582, 42582>>, <<42584, 42584>>, <<42586, 42586>>,
      <<42588, 42588>>, <<42590, 42590>>, <<42592, 42592>>, <<42594, 42594>>, <<42596, 42596>>, <<42598, 42598>>,
      <<42600, 42600>>, <<42602, 42602>>, <<42604, 42604>>, <<42624, 42624>>, <<42626, 42626>>, <<42628, 42628>>,
      <<42630, 42630>>, <<42632, 42632>>, <<42634, 42634>>, <<42636, 42636>>, <<42638, 42638>>, <<42640, 42640>>,
      <<42642, 42642>>, <<42644, 42644>>, <<42646, 42646>>, <<42648, 42648>>, <<42650, 42650>>, <<42786, 42786>>,
      <<42788, 42788>>, <<42790, 42790>>, <<42792, 42792>>, <<42794, 42794>>, <<42796, 42796>>, <<42798, 42798>>,
      <<42802, 42802>>, <<42804, 42804>>, <<42806, 42806>>, <<42808, 42808>>, <<42810, 42810>>, <<42812, 42812>>,
      <<42814, 42814>>, <<42816, 42816>>, <<42818, 42818>>, <<42820, 42820>>, <<42822, 42822>>, <<42824, 42824>>,
      <<42826, 42826>>, <<42828, 42828>>, <<42830, 42830>>, <<42832, 42832>>, <<42834, 42834>>, <<42836, 42836>>,
      <<42838, 42838>>, <<42840, 42840>>, <<42842, 42842>>, <<42844, 42844>>, <<42846, 42846>>, <<42848, 42848>>,
      <<42850, 42850>>, <<42852, 42852>>, <<42854, 42854>>, <<42856, 42856>>, <<42858, 42858>>, <<42860, 42860>>,
      <<42862, 42862>>, <<42873, 42873>>, <<42875, 42875>>, <<42877, 42878>>, <<42880, 42880>>, <<42882, 42882>>,
      <<42884, 42884>>, <<42886, 42886>>, <<42891, 42891>>, <<42893, 42893>>, <<42896, 42896>>, <<42898, 42898>>,
      <<42902, 42902>>, <<42904, 42904>>, <<42906, 42906>>, <<42908, 42908>>, <<42910, 42910>>, <<42912, 42912>>,
      <<42914, 42914>>, <<42916, 42916>>, <<42918, 42918>>, <<42920, 42920>>, <<42922, 42926>>, <<42928, 42932>>,
      <<42934, 42934>>, <<42936, 42936>>, <<42938, 42938>>, <<42940, 42940>>, <<42942, 42942>>, <<42944, 42944>>,
      <<42946, 42946>>, <<42948, 42951>>, <<42953, 42953>>, <<42955, 42956>>, <<42958, 42958>>, <<42960, 42960>>,
      <<42962, 42962>>, <<42964, 42964>>, <<42966, 42966>>, <<42968, 42968>>, <<42970, 42970>>, <<42972, 42972>>,
      <<42997, 42997>>, <<65313, 65338>>, <<66560, 66599>>, <<66736, 66771>>, <<66928, 66938>>, <<66940, 66954>>,
      <<66956, 66962>>, <<66964, 66965>>, <<68736, 68786>>, <<68944, 68965>>, <<71840, 71871>>, <<93760, 93791>>,
      <<93856, 93880>>, <<119808, 119833>>, <<119860, 119885>>, <<119912, 119937>>, <<119964, 119964>>, <<119966, 119967>>,
      <<119970, 119970>>, <<119973, 119974>>, <<119977, 119980>>, <<119982, 119989>>, <<120016, 120041>>, <<120068, 120069>>,
      <<120071, 120074>>, <<120077, 120084>>, <<120086, 120092>>, <<120120, 120121>>, <<120123, 120126>>, <<120128, 120132>>,
      <<120134, 120134>>, <<120138, 120144>>, <<120172, 120197>>, <<120224, 120249>>, <<120276, 120301>>, <<120328, 120353>>,
      <<120380, 120405>>, <<120432, 120457>>, <<120488, 120512>>, <<120546, 120570>>, <<120604, 120628>>, <<120662, 120686>>,
      <<120720, 120744>>, <<120778, 120778>>, <<125184, 125217>>, <<127280, 127305>>, <<127312, 127337>>, <<127344, 127369>>>>

\* the code point cp has the property Uppercase
Uppercase(cp) ==
    \E n \in 1..Len(UppercaseRanges) :
        cp \in UppercaseRanges[n][1]..UppercaseRanges[n][2]

\* the code units A..Z and U+00C0..U+00DE without the multiplication sign
Latin1Uppercase ==
    {Latin1Low[i] : i \in 34..59} \cup {Latin1High[i] : i \in (33..63) \ {56}}

\* s holds a character with the property Uppercase
HoldsUppercase(s) ==
    \/ \E i \in 1..Len(s) : s[i] \in Latin1Uppercase
    \/ /\ \E i \in 1..Len(s) : Len(s[i]) # 1
       /\ LET cps == CodePoints(s)
          IN  \E i \in 1..Len(cps) : Uppercase(cps[i])

\* C2: the lookupTerm of every non-directive record is entirely lowercase
\* (it holds no character with the Unicode property Uppercase), has no
\* whitespace at either end and no two adjacent whitespace characters.
LookupTermNormalized ==
    pc = "done" =>
        \A i \in 1..Len(parsed) :
            parsed[i].directive = Null =>
                LET t == parsed[i].lookupTerm
                IN  /\ t # Null
                    /\ ~HoldsUppercase(t)
                    /\ t # <<>> => ~IsSpace(t[1]) /\ ~IsSpace(t[Len(t)])
                    /\ \A p \in 1..(Len(t) - 1) : ~(IsSpace(t[p]) /\ IsSpace(t[p + 1]))

\* C3: parseShoppingList returns for every input; no stage raises.
NoStageRaises == pc # "threw"

\* the entries of the segments in their left-to-right order
RECURSIVE SourceOrderEntries(_, _, _, _)
SourceOrderEntries(segments, block, category, sharedQty) ==
    IF segments = <<>> THEN <<>>
    ELSE LET seg == Head(segments)
             rest == SourceOrderEntries(Tail(segments), block, category, sharedQty)
             frags == splitOnAnd(StripTrailingPeriod(seg))
         IN  IF seg = <<>> THEN rest
             ELSE IF IsDirectiveText(seg)
                  THEN <<[raw |-> block.raw, directive |-> seg, section |-> block.section]>>
                       \o rest
                  ELSE IF StripTrailingPeriod(seg) = <<>> THEN rest
                       ELSE [i \in 1..Len(frags) |->
                                [raw |-> block.raw, itemText |-> trim(frags[i]),
                                 section |-> block.section, category |-> category,
                                 sharedQty |-> sharedQty]] \o rest

\* C4: the entries of one line stand in the left-to-right order of the
\* segments they came from, directive entries included.
EntriesInSegmentOrder ==
    \A k \in Taken :
        blocks[k].type = "items" =>
            Slice(k) = SourceOrderEntries(
                           SegmentsOf(blocks[k]), blocks[k],
                           ExtractCategory(blocks[k].text).category,
                           ExtractSharedQty(ExtractCategory(blocks[k].text).text).sharedQty)

\* the trimmed lines of the text
TrimmedLines == LET ls == SplitLines(text) IN [i \in 1..Len(ls) |-> trim(ls[i])]

\* every raw of raws is a line of lines, in the order of the lines
RECURSIVE InLineOrder(_, _)
InLineOrder(raws, lines) ==
    IF raws = <<>> THEN TRUE
    ELSE IF lines = <<>> THEN FALSE
    ELSE IF Head(raws) = Head(lines) THEN InLineOrder(Tail(raws), lines)
    ELSE InLineOrder(raws, Tail(lines))

\* C5: the returned records are parseItem of every expanded entry of
\* every block, in block order and entry order: none dropped, none moved,
\* and the records of an earlier line stand before those of a later line.
OrchestratorKeepsAll ==
    pc = "done" =>
        LET bs == splitIntoBlocks(text)
            entries == [k \in 1..Len(bs) |-> expandLine(bs[k])]
            perBlock == [k \in 1..Len(bs) |->
                            [i \in 1..Len(entries[k]) |-> parseItem(entries[k][i])]]
        IN  /\ parsed = Flatten(perBlock)
            /\ Len(parsed) = Len(Flatten(entries))
            /\ InLineOrder([i \in 1..Len(parsed) |-> parsed[i].raw],
                           SelectSeq(TrimmedLines, LAMBDA l : l # <<>>))

OrchestratorWitness ==
    /\ pc = "done"
    /\ Len(blocks) >= 2
    /\ Len(parsed) > Len(blocks)
    /\ \E i \in 1..Len(parsed) : parsed[i].directive # Null
    /\ \E i \in 1..Len(parsed) : parsed[i].raw # parsed[1].raw

\* the section in force at line k: the label of the last header line
\* before it, null when there is none
SectionAt(lines, k) ==
    LET hs == {h \in 1..(k - 1) : lines[h] # <<>> /\ IsHeader(lines[h])}
    IN  IF hs = {} THEN Null ELSE SectionName(lines[SetMax(hs)])

SectionBefore(k) == SectionAt(TrimmedLines, k)

\* the lines that are neither blank nor headers, and the blocks of such lines
PlainLines ==
    LET lines == TrimmedLines
    IN  SelectSeq(Indices(Len(lines)), LAMBDA k : lines[k] # <<>> /\ ~IsHeader(lines[k]))

PlainBlocks == SelectSeq(Indices(Len(blocks)), LAMBDA k : ~IsHeader(blocks[k].raw))

HeaderLines ==
    LET lines == TrimmedLines
    IN  SelectSeq(Indices(Len(lines)), LAMBDA k : lines[k] # <<>> /\ IsHeader(lines[k]))

\* C6: the records of a non-header line carry the section of the last
\* header line before it, null before the first header; blank lines give
\* no block and leave the section as it is.
SectionPropagation ==
    pc # "split" =>
        LET lines == TrimmedLines
            plainLines == PlainLines
            plainBlocks == PlainBlocks
        IN  /\ Len(plainBlocks) = Len(plainLines)
            /\ Len(blocks) - Len(plainBlocks) <= Len(HeaderLines)
            /\ \A j \in 1..Len(plainBlocks) :
                  LET k == plainBlocks[j]
                      sec == SectionAt(lines, plainLines[j])
                      slice == Slice(k)
                      offset == Offset(k)
                  IN  /\ blocks[k].raw = lines[plainLines[j]]
                      /\ blocks[k].section = sec
                      /\ k \in Taken =>
                            \A i \in 1..Len(slice) :
                                /\ slice[i].raw = blocks[k].raw
                                /\ slice[i].section = sec
                                /\ pc = "done" => parsed[offset + i].section = sec

SectionWitness ==
    /\ pc = "done"
    /\ \E h \in 1..Len(TrimmedLines) : TrimmedLines[h] = <<>> /\ SectionBefore(h) # Null
    /\ \E j \in 1..Len(PlainBlocks) :
          /\ blocks[PlainBlocks[j]].section # Null
          /\ Len(Slice(PlainBlocks[j])) >= 1
          /\ \E h \in 1..(PlainLines[j] - 1) : TrimmedLines[h] = <<>> /\ SectionBefore(h) # Null

\* C7: the inline content after a header's colon yields the entries it
\* would yield as an items line of the section the header sets, and the
\* header is no item itself.
InlineContentCaptured ==
    \A k \in Taken :
        IsHeader(blocks[k].raw) =>
            /\ blocks[k].section = SectionName(blocks[k].raw)
            /\ Slice(k) = expandLine([blocks[k] EXCEPT !.type = "items"])

\* the letters a..z and, at the same places, their capitals
SmallLetters == Str("abcdefghijklmnopqrstuvwxyz")

CapitalLetters == Str("ABCDEFGHIJKLMNOPQRSTUVWXYZ")

\* c is the character x or, x being a letter, a capital of it (the Kelvin
\* sign U+212A is a capital of k)
SameIgnoringCase(c, x) ==
    \/ c = x
    \/ \E n \in 1..26 : SmallLetters[n] = x /\ CapitalLetters[n] = c
    \/ x = "k" /\ c = "U+212A"

\* word stands in s at place p, in either case
StandsAt(s, p, word) ==
    /\ p >= 1
    /\ p + Len(word) - 1 <= Len(s)
    /\ \A i \in 1..Len(word) : SameIgnoringCase(s[p + i - 1], word[i])

\* seg contains an entry of AND_COMPOUNDS, in either case
HoldsCompound(seg) ==
    \E c \in 1..Len(AND_COMPOUNDS) :
        \E p \in 1..Len(seg) : StandsAt(seg, p, AND_COMPOUNDS[c])

\* the places of seg where the word "and" stands with whitespace before it
\* and whitespace after it
AndPlaces(seg) ==
    {p \in 2..(Len(seg) - 3) :
        IsSpace(seg[p - 1]) /\ StandsAt(seg, p, Str("and")) /\ IsSpace(seg[p + 3])}

\* a fragment, when it is not empty
Fragment(piece) == IF trim(piece) = <<>> THEN <<>> ELSE <<trim(piece)>>

\* seg from start on, cut at every place of places: the non-empty fragments
RECURSIVE FragmentsFrom(_, _, _)
FragmentsFrom(seg, start, places) ==
    IF places = {} THEN Fragment(SubSeq(seg, start, Len(seg)))
    ELSE LET p == SetMin(places)
         IN  Fragment(SubSeq(seg, start, p - 1))
             \o FragmentsFrom(seg, p + 3, places \ {p})

\* the item texts a segment yields: none when it is a directive or empty,
\* itself when it holds a compound, else its fragments
ItemsOfSegment(segment) ==
    LET seg == StripTrailingPeriod(segment)
    IN  IF IsDirectiveText(segment) \/ seg = <<>> THEN <<>>
        ELSE IF HoldsCompound(seg) THEN <<seg>>
        ELSE FragmentsFrom(seg, 1, AndPlaces(seg))

ItemTexts(entries) ==
    LET its == ItemEntries(entries) IN [i \in 1..Len(its) |-> its[i].itemText]

\* C8: on every line, a comma-separated segment that contains an entry of
\* AND_COMPOUNDS, in either case, gives exactly one item entry, the whole
\* segment; a segment without a compound gives one item entry for each of
\* its non-empty fragments between the whitespace-delimited words "and".
CompoundsNeverSplit ==
    \A k \in Taken :
        LET segs == SegmentsOf(blocks[k])
        IN  ItemTexts(Slice(k)) = Flatten([i \in 1..Len(segs) |-> ItemsOfSegment(segs[i])])

\* the text starts with "<number> <unit> each" and a colon
SharedQtyLine(t) ==
    /\ QtyEachEnd(t, SHARED_QTY_UNITS) # 0
    /\ SkipSpaces(t, QtyEachEnd(t, SHARED_QTY_UNITS)) <= Len(t)
    /\ t[SkipSpaces(t, QtyEachEnd(t, SHARED_QTY_UNITS))] = ":"

\* C9: on a line "<number> <unit> each: ..." the phrase is the sharedQty of
\* every item entry and no category, and the qty of every item without a
\* quantity of its own.
SharedQtyApplied ==
    \A k \in Taken :
        (blocks[k].type = "items" /\ SharedQtyLine(blocks[k].text)) =>
            LET phrase == SubSeq(blocks[k].text, 1,
                                 QtyEachEnd(blocks[k].text, SHARED_QTY_UNITS) - 1)
                slice == Slice(k)
                offset == Offset(k)
            IN  \A i \in 1..Len(slice) :
                    ~IsDirectiveEntry(slice[i]) =>
                        /\ slice[i].sharedQty = phrase
                        /\ slice[i].category = Null
                        /\ pc = "done" =>
                              \/ parsed[offset + i].qty = phrase
                              \/ ItemQtyAndName([slice[i] EXCEPT !.sharedQty = Null]).qty # <<>>

\* the comma-separated segments of a line, trimmed; a line that begins with
\* a directive phrase has no prefix before its segments
LineSegments(block) ==
    IF IsDirectiveText(block.text) THEN SplitCommas(block.text) ELSE SegmentsOf(block)

\* C10: on every line, each comma-separated segment that begins with a
\* directive phrase gives exactly one directive entry, its directive the
\* trimmed segment, and no item entry has the segment as its text; the
\* other segments give no directive entry; a directive record has name and
\* lookupTerm null and qty and notes empty.
DirectiveSegments ==
    /\ \A k \in Taken :
          LET segs == LineSegments(blocks[k])
              slice == Slice(k)
              dirs == DirectiveEntries(slice)
              texts == ItemTexts(slice)
          IN  /\ [i \in 1..Len(dirs) |-> dirs[i].directive]
                 = SelectSeq(segs, LAMBDA g : IsDirectiveText(g))
              /\ \A i \in 1..Len(segs) :
                    IsDirectiveText(segs[i]) =>
                        \A j \in 1..Len(texts) :
                            texts[j] # segs[i] /\ texts[j] # StripTrailingPeriod(segs[i])
    /\ pc = "done" =>
          \A i \in 1..Len(parsed) :
              IF IsDirectiveEntry(expanded[i])
              THEN /\ parsed[i].directive = expanded[i].directive
                   /\ parsed[i].name = Null /\ parsed[i].lookupTerm = Null
                   /\ parsed[i].qty = <<>> /\ parsed[i].notes = <<>>
              ELSE parsed[i].directive = Null

\* ------------------------------------------------------------------------
\* Lists of lines with category and shared quantity prefixes
\* ------------------------------------------------------------------------
ScopeLines ==
    { Str("Fruits: apples, pears"), Str("2 bags each: OJ, 3 limes"), Str("milk"),
      Str("Aisle 3: Snacks: chips, surprise us"), Str("constructor"),
      Str("Fruits: kiwi\rfigs, dates") }

ScopeInputs == {Join(ls, Str("\n")) : ls \in SeqsUpTo(ScopeLines, MaxLines)}

InitScope ==
    /\ text \in ScopeInputs
    /\ pc = "split"
    /\ blocks = <<>>
    /\ next = 1
    /\ expanded = <<>>
    /\ parsed = <<>>
    /\ ShopIdle

SpecScope == InitScope /\ [][Next]_vars

\* the category and the shared quantity that the lines of ScopeLines name
\* before their items
LineCategory(line) ==
    IF line \in {Str("Fruits: apples, pears"), Str("Fruits: kiwi\rfigs, dates")}
    THEN Str("Fruits")
    ELSE IF line = Str("Aisle 3: Snacks: chips, surprise us") THEN Str("Snacks")
    ELSE Null

LineSharedQty(line) ==
    IF line = Str("2 bags each: OJ, 3 limes") THEN Str("2 bags each") ELSE Null

\* C11: every item entry carries the category and the sharedQty of the
\* line it was expanded from, null when the line has none, whatever lines
\* stand before it; a record has the category of its own line, and the
\* shared quantity of a line is the qty of records of that line only.
ScopedToLine ==
    /\ \A i \in 1..Len(expanded) :
          ~IsDirectiveEntry(expanded[i]) =>
              /\ expanded[i].raw \in ScopeLines
              /\ expanded[i].category = LineCategory(expanded[i].raw)
              /\ expanded[i].sharedQty = LineSharedQty(expanded[i].raw)
              /\ indexOf(expanded[i].raw, ":") = 0 =>
                    expanded[i].category = Null /\ expanded[i].sharedQty = Null
    /\ pc = "done" =>
          \A i \in 1..Len(parsed) :
              /\ parsed[i].raw = expanded[i].raw
              /\ parsed[i].category =
                    IF IsDirectiveEntry(expanded[i]) THEN Null
                    ELSE LineCategory(parsed[i].raw)
              /\ \A line \in ScopeLines :
                    (LineSharedQty(line) # Null /\ parsed[i].qty = LineSharedQty(line))
                        => LineSharedQty(parsed[i].raw) = parsed[i].qty

ScopedWitness ==
    /\ pc = "done"
    /\ \E i \in 1..Len(parsed) : \E j \in 1..Len(parsed) :
          /\ i < j
          /\ parsed[i].category = Str("Fruits")
          /\ expanded[j].raw = Str("milk")
          /\ parsed[j].category = Null /\ parsed[j].qty = <<>>
    /\ \E i \in 1..Len(parsed) : \E j \in 1..Len(parsed) :
          /\ i < j
          /\ ~IsDirectiveEntry(expanded[i])
          /\ expanded[i].sharedQty = Str("2 bags each")
          /\ parsed[i].qty = Str("2 bags each")
          /\ expanded[j].raw # expanded[i].raw
          /\ ~IsDirectiveEntry(expanded[j])
          /\ expanded[j].sharedQty = Null

\* ------------------------------------------------------------------------
\* Lines of one item: a leading quantity, a name, a trailing quantity
\* ------------------------------------------------------------------------
ItemLeads == { Str(""), Str("2 "), Str("3-4 "), Str("2 cans "), Str("7 "), Str("dz ") }

ItemCores ==
    { Str("milk"), Str("up"), Str("Up"), Str("oz vodka"), Str("beans"),
      Str("organic fresh milk"), Str("tuna in water cans"),
      Str("yellow or white potatoes"), Str("dark chocolate or milk"),
      Str("butter or margarine"), Str("Ham or ham"),
      Str("1/2 & 1/2"), Str("1/2&1/2"), Str("1/2 and 1/2"),
      Str("apples (red, ripe)"), Str("eggs (large) (brown)"),
      Str("salt (fine and coarse)"), Str("constructor"),
      Str("green\rbeans"), Str("green\rbeans or peas"),
      Str("Éclair  or ") \o <<"U+0100">> \o Str("RTE"),
      <<"U+0101">> \o Str("pple"),
      Str("fresh ") \o <<"U+039F", "U+0394", "U+039F", "U+03A3">> }

ItemTrails == { Str(""), Str(" x3") }

ItemInputs ==
    {lead \o core \o trail : lead \in ItemLeads, core \in ItemCores, trail \in ItemTrails}

InitItems ==
    /\ text \in ItemInputs
    /\ pc = "split"
    /\ blocks = <<>>
    /\ next = 1
    /\ expanded = <<>>
    /\ parsed = <<>>
    /\ ShopIdle

SpecItems == InitItems /\ [][Next]_vars

\* the entry of an item text that stands alone
EntryOf(itemText) ==
    [raw |-> itemText, itemText |-> itemText, section |-> Null, category |-> Null,
     sharedQty |-> Null]

\* C12: finishing the name of a record again gives the same name, deriving
\* the lookup term from a lookupTerm again gives the same lookupTerm, and
\* parseItem of a lookupTerm gives that lookupTerm.
NormalizationIdempotent ==
    pc = "done" =>
        \A i \in 1..Len(parsed) :
            parsed[i].directive = Null =>
                /\ Capitalize(CleanWhitespace(parsed[i].name)) = parsed[i].name
                /\ BuildLookupTerm(parsed[i].lookupTerm) = parsed[i].lookupTerm
                /\ parseItem(EntryOf(parsed[i].lookupTerm)).lookupTerm
                   = parsed[i].lookupTerm

\* the working text of an item entry when the quantity patterns are tried:
\* notes and half-and-half shorthand done, the dozen prefix taken off
QtyText(itemText) ==
    LET t == NormalizeHalf(trim(NotesScan(itemText, 1).text))
    IN  IF HasDozenPrefix(t) THEN StripDozenPrefix(t) ELSE t

HasDozenFlag(itemText) ==
    HasDozenPrefix(NormalizeHalf(trim(NotesScan(itemText, 1).text)))

\* the rule that wins on a working text: "a" the trailing x<digits>, "b" the
\* leading <digits> <unit>, "c" the leading number, "none"
WinningRule(t) ==
    LET c == LeadingNum(t)
    IN  IF TrailingX(t).matched THEN "a"
        ELSE IF LeadingQty(t).matched THEN "b"
        ELSE IF c.matched /\ (~IsLowerLetter(c.g2[1]) \/ Len(c.g2) > 2) THEN "c"
        ELSE "none"

\* what the winning rule alone gives
RuleQty(t, rule) ==
    CASE rule = "a" -> TrailingX(t).g2
      [] rule = "b" -> LeadingQty(t).g1 \o Str(" ") \o LeadingQty(t).g2
      [] rule = "c" -> LeadingNum(t).g1
      [] OTHER -> <<>>

RuleName(t, rule) ==
    CASE rule = "a" -> trim(TrailingX(t).g1)
      [] rule = "b" -> trim(LeadingQty(t).g3)
      [] rule = "c" -> trim(LeadingNum(t).g2)
      [] OTHER -> t

\* C16: the qty of every item record is what the first matching rule in the
\* order trailing x<digits>, leading <digits> <unit>, leading number gives
\* (with " dozen" for the dozen flag, the sharedQty when no rule matches),
\* the name is what that one rule leaves, so that a leading number or unit
\* stays in the name when the trailing rule matches, and qty is "" when no
\* rule matches and there is neither dozen flag nor sharedQty.
QtyPriority ==
    pc = "done" =>
        \A i \in 1..Len(parsed) :
            parsed[i].directive = Null =>
                LET e == expanded[i]
                    t == QtyText(e.itemText)
                    rule == WinningRule(t)
                    q == RuleQty(t, rule)
                IN  /\ parsed[i].qty =
                          IF HasDozenFlag(e.itemText)
                          THEN (IF q # <<>> THEN q \o Str(" dozen") ELSE Str("dozen"))
                          ELSE IF q = <<>> /\ Truthy(e.sharedQty) THEN e.sharedQty
                          ELSE q
                    /\ parsed[i].name
                       = Capitalize(CleanWhitespace(ExpandAbbreviation(RuleName(t, rule))))
                    /\ rule # "none" => q # <<>>
                    /\ (rule = "none" /\ ~HasDozenFlag(e.itemText) /\ ~Truthy(e.sharedQty))
                       => parsed[i].qty = <<>>

\* "2 cans beans x3": the trailing rule wins, "2 cans" stays in the name
QtyPriorityWitness ==
    /\ pc = "done"
    /\ text = Str("2 cans beans x3")
    /\ Len(parsed) = 1
    /\ parsed[1].qty = Str("3")
    /\ parsed[1].name = Str("2 cans beans")
    /\ LeadingQty(QtyText(expanded[1].itemText)).matched

\* the word that follows the leading number of a working text
WordAfterNumber(t) == SplitWords(LeadingNum(t).g2)[1]

\* C17: when a working text starts with digits or a digit range and
\* whitespace, and neither the trailing x rule nor the unit rule matched,
\* the number is the qty unless the word after it starts with a lowercase
\* letter and has at most two characters; then, whatever follows that word,
\* the number stays in the name and this rule sets no qty.
LeadingNumberAmbiguity ==
    pc = "done" =>
        \A i \in 1..Len(parsed) :
            parsed[i].directive = Null =>
                LET e == expanded[i]
                    t == QtyText(e.itemText)
                    num == LeadingNum(t)
                    word == WordAfterNumber(t)
                    bare == IF IsLowerLetter(word[1]) /\ Len(word) <= 2 THEN <<>> ELSE num.g1
                IN  (/\ ~TrailingX(t).matched /\ ~LeadingQty(t).matched /\ num.matched
                     /\ ~HasDozenFlag(e.itemText) /\ ~Truthy(e.sharedQty))
                    => /\ parsed[i].qty = bare
                       /\ bare = <<>> =>
                            parsed[i].name = Capitalize(CleanWhitespace(ExpandAbbreviation(t)))

\* the words of a finished name, and the first "or" among them that has a
\* word before it and a word after it (0 when there is none)
OrIndex(words) ==
    LET ors == {j \in 2..(Len(words) - 1) : toLowerCase(words[j]) = Str("or")}
    IN  IF ors = {} THEN 0 ELSE SetMin(ors)

\* the noun "<A> or <B>" resolves to, A and B given as their words
ResolvedNoun(A, B) ==
    IF toLowerCase(A[Len(A)]) = toLowerCase(B[Len(B)]) THEN B[Len(B)]
    ELSE IF Len(B) > 1 THEN B[Len(B)]
    ELSE IF Len(A) > 1 THEN A[Len(A)]
    ELSE B[1]

\* C18: the lookupTerm of every item whose name reads "<A> or <B>" is the
\* noun the alternatives resolve to (the shared last word; else the last
\* word of B when B has several words; else the last word of A when A has
\* several; else B), lowercased, with "veggies" written "vegetables".
OrResolution ==
    pc = "done" =>
        \A i \in 1..Len(parsed) :
            parsed[i].directive = Null =>
                LET words == SplitWords(parsed[i].name)
                    j == OrIndex(words)
                IN  j # 0 =>
                        parsed[i].lookupTerm
                        = toLowerCase(ReplaceVeggies(
                              ResolvedNoun(SubSeq(words, 1, j - 1),
                                           SubSeq(words, j + 1, Len(words))), 1))

\* the half-and-half shorthand in its spellings
HalfForms == { Str("1/2 & 1/2"), Str("1/2&1/2"), Str("1/2 and 1/2") }

\* C19: a line that is the half-and-half shorthand, written with "&" or
\* with "and", optionally followed by " x<digits>", gives exactly one item
\* named "Half and half", its qty the digits when they are given.
HalfAndHalfOneItem ==
    pc = "done" =>
        \A h \in HalfForms :
            /\ text = h =>
                  /\ Len(parsed) = 1
                  /\ parsed[1].name = Str("Half and half")
                  /\ parsed[1].qty = <<>>
            /\ text = h \o Str(" x3") =>
                  /\ Len(parsed) = 1
                  /\ parsed[1].name = Str("Half and half")
                  /\ parsed[1].qty = Str("3")

\* the balanced non-empty "(...)" spans of a line, trimmed, in source order
SpansOf(line) == NotesScan(line, 1).notesList

\* the notes of the records that have notes, in order
RECURSIVE NotesOf(_)
NotesOf(records) ==
    IF records = <<>> THEN <<>>
    ELSE (IF Head(records).directive = Null /\ Head(records).notes # <<>>
          THEN <<Head(records).notes>> ELSE <<>>) \o NotesOf(Tail(records))

\* C20: the contents of the "(...)" spans of an item line are, trimmed and
\* in source order, the notes of its items (several notes of one item
\* joined by "; "); no parenthesis is left in any name, and the line gives
\* as many items as it gives with the spans taken out.
NotesPreserved ==
    pc = "done" =>
        LET spans == SpansOf(text)
            bare == splitIntoBlocks(NotesScan(text, 1).text)
        IN  spans # <<>> =>
                /\ Join(NotesOf(parsed), Str("; ")) = Join(spans, Str("; "))
                /\ \A i \in 1..Len(parsed) :
                       parsed[i].directive = Null =>
                           /\ ~includes(parsed[i].name, Str("("))
                           /\ ~includes(parsed[i].name, Str(")"))
                /\ Len(parsed) = Len(Flatten([k \in 1..Len(bare) |-> expandLine(bare[k])]))

\* ------------------------------------------------------------------------
\* Properties of the runs of shop.js
\* ------------------------------------------------------------------------
\* saveCache of run r has returned
Saved(r) == step[r] \in {"written", "failed"}

\* cache.json holds what saveCache of run r wrote
Persisted(r) == Saved(r) /\ cacheFile.readable /\ cacheFile.data = allCacheData[r]

\* the bucket of the store of run r in cache.json, and in cache.json as the
\* run loaded it
PersistedBucket(r) == StoreData(LoadedData(cacheFile), STORE_ID[r])

BucketAtStart(r) == StoreData(LoadedData(fileAtStart[r]), STORE_ID[r])

KeyOfItem(r, j) == CacheKey(items[r][j].lookupTerm)

\* run q is a next run after run r: it is for the same store and has loaded
\* the cache.json that saveCache of run r wrote
NextRun(r, q) ==
    /\ q # r
    /\ Saved(r)
    /\ step[q] # "idle"
    /\ STORE_ID[q] = STORE_ID[r]
    /\ fileAtStart[q].readable
    /\ fileAtStart[q].data = allCacheData[r]

\* run q has sent the term key to the API
Queried(q, key) == \E n \in 1..Len(apiCalls[q]) : CacheKey(apiCalls[q][n]) = key

\* the lookup of item j of run r ended Unknown
EndedUnknown(r, j) == items[r][j].aisle = Str("Unknown")

\* no item of run r with the term of item j resolved to an aisle
NoneResolved(r, j) ==
    \A n \in 1..Len(items[r]) : KeyOfItem(r, n) = KeyOfItem(r, j) => EndedUnknown(r, n)

\* C13 as stated: after saveCache the bucket of the store in cache.json
\* holds no entry with aisle "Unknown", every item whose lookup ended
\* Unknown is absent from it, and a next run that looks the term of such an
\* item up sends it to the API.
UnknownItemsAbsent ==
    /\ \A r \in Runs :
          Persisted(r) =>
              /\ \A k \in DOMAIN PersistedBucket(r) :
                     PersistedBucket(r)[k].aisle # Str("Unknown")
              /\ \A j \in 1..Len(items[r]) :
                     EndedUnknown(r, j) => KeyOfItem(r, j) \notin DOMAIN PersistedBucket(r)
    /\ \A r, q \in Runs :
          NextRun(r, q) =>
              \A j \in 1..Len(items[r]) :
                  EndedUnknown(r, j) =>
                      \A n \in 1..(index[q] - 1) :
                          KeyOfItem(q, n) = KeyOfItem(r, j) => Queried(q, KeyOfItem(r, j))

\* C13: after saveCache the bucket of the store in cache.json holds no
\* entry with aisle "Unknown"; every item whose lookup ended Unknown is
\* absent from it, unless another item of the run with the same lookup term
\* resolved to an aisle, and a next run that looks the term of such an item
\* up sends it to the API.
UnknownNotPersisted ==
    /\ \A r \in Runs :
          Persisted(r) =>
              /\ \A k \in DOMAIN PersistedBucket(r) :
                     PersistedBucket(r)[k].aisle # Str("Unknown")
              /\ \A j \in 1..Len(items[r]) :
                     (EndedUnknown(r, j) /\ NoneResolved(r, j))
                     => KeyOfItem(r, j) \notin DOMAIN PersistedBucket(r)
    /\ \A r, q \in Runs :
          NextRun(r, q) =>
              \A j \in 1..Len(items[r]) :
                  (EndedUnknown(r, j) /\ NoneResolved(r, j)) =>
                      \A n \in 1..(index[q] - 1) :
                          KeyOfItem(q, n) = KeyOfItem(r, j) => Queried(q, KeyOfItem(r, j))

\* cache.json is as the first run wrote it, and the second run started on
\* it for the same store: an item of the first run ended Unknown after a
\* request and its term is not in the bucket, while the term of another
\* item is; the second run has looked the term up and sent it to the API
\* again
UnknownWitness ==
    /\ Persisted(1)
    /\ NextRun(1, 2)
    /\ \E j \in 1..Len(items[1]) :
          /\ EndedUnknown(1, j)
          /\ NoneResolved(1, j)
          /\ Queried(1, KeyOfItem(1, j))
          /\ KeyOfItem(1, j) \notin DOMAIN PersistedBucket(1)
          /\ \E n \in 1..(index[2] - 1) : KeyOfItem(2, n) = KeyOfItem(1, j)
          /\ Queried(2, KeyOfItem(1, j))
    /\ \E j \in 1..Len(items[1]) : KeyOfItem(1, j) \in DOMAIN PersistedBucket(1)

\* a run consults only what it loaded from the bucket of its store: at the
\* call of main its cache is that bucket, and later every entry of its
\* cache is an entry of that bucket or the answer to a request of the run
ConsultsOwnBucket ==
    /\ \A r \in Runs : step[r] = "main" => cache[r] = BucketAtStart(r)
    /\ \A r \in Runs :
          step[r] \notin {"idle", "exit1"} =>
              \A k \in DOMAIN cache[r] :
                  \/ k \in DOMAIN BucketAtStart(r) /\ cache[r][k] = BucketAtStart(r)[k]
                  \/ Queried(r, k)

\* the objects before and after have the same buckets but for the one of
\* the store storeId
OtherBucketsSame(before, after, storeId) ==
    \A s \in (DOMAIN before \cup DOMAIN after) \ {storeId} :
        /\ s \in DOMAIN before
        /\ s \in DOMAIN after
        /\ before[s] = after[s]

\* a step that is the saveCache of a run, called when cache.json holds an
\* object, replaces the bucket of the store of the run only: the object it
\* writes has every other bucket as cache.json holds it
SaveReplacesOwnBucket ==
    \A r \in Runs :
        (/\ step[r] = "lookup"
         /\ step'[r] = "write"
         /\ cacheFile.readable
         /\ cacheFile.data # NullObject)
        => OtherBucketsSame(cacheFile.data, allCacheData'[r], STORE_ID[r])

\* C14: a run for store S consults only entries loaded from bucket S of
\* cache.json, and saveCache replaces only bucket S: the bucket of every
\* other store in cache.json is after saveCache what it was before.
StoreIsolation == []ConsultsOwnBucket /\ [][SaveReplacesOwnBucket]_vars

\* the aisles of the sections of run r, in the order they are emitted
Emitted(r) == [k \in 1..Len(sections[r]) |-> sections[r][k].aisle]

\* C15: every looked-up item is in exactly one group, the group of its
\* aisle, and an item whose location is unresolved is in the group
\* "Unknown"; the groups are emitted in non-decreasing rank of
\* AISLE_SORT_ORDER (98 for an aisle that is not in the table), and the
\* group "Unknown", when there is one, is emitted last.
GroupsRendered ==
    \A r \in Runs :
        step[r] = "written" =>
            LET secs == sections[r]
                its == items[r]
                em == Emitted(r)
            IN  /\ \A k, n \in 1..Len(secs) : em[k] = em[n] => k = n
                /\ \A k \in 1..Len(secs) :
                       /\ secs[k].items # <<>>
                       /\ secs[k].items
                          = SelectSeq(its, LAMBDA it :
                                (IF Truthy(it.aisle) THEN it.aisle ELSE Str("Unknown")) = em[k])
                /\ \A j \in 1..Len(its) :
                       /\ \E k \in 1..Len(secs) :
                             em[k] = (IF Truthy(its[j].aisle) THEN its[j].aisle
                                      ELSE Str("Unknown"))
                       /\ its[j].aisle = Str("Unknown") =>
                             \E k \in 1..Len(secs) :
                                 /\ em[k] = Str("Unknown")
                                 /\ \E n \in 1..Len(secs[k].items) : secs[k].items[n] = its[j]
                /\ \A k \in 1..(Len(secs) - 1) : SortRank(em[k]) <= SortRank(em[k + 1])
                /\ \A k \in 1..Len(secs) : em[k] = Str("Unknown") => k = Len(secs)

\* the first item of the list is unresolved and the second is in an aisle
\* that the table does not hold: the group "Unknown" was created first and
\* is emitted last
GroupsWitness ==
    \E r \in Runs :
        /\ step[r] = "written"
        /\ Len(sections[r]) = 2
        /\ groups[r][1].aisle = Str("Unknown")
        /\ Emitted(r) = <<Str("Front End"), Str("Unknown")>>
        /\ SortRank(Emitted(r)[1]) = DefaultRank

====
